---- MODULE Spec2Model ----
(***************************************************************************)
(* A model of the CSSLint engine of vendor-overwrites/csslint/csslint.js:  *)
(* the Reporter, the rule registry, the embedded-directive extractor       *)
(* (applyEmbeddedOverrides) and the orchestrator (CSSLint.verify).         *)
(*                                                                         *)
(* The CSS text is a sequence of lexical items (a comment, a line break,   *)
(* a style rule, an @import, a malformed piece).  Item number j (counted   *)
(* from 0) starts at character offset TokWidth * j; the word "csslint" of  *)
(* a comment stands CsslintAt characters after the comment's "/*".         *)
(***************************************************************************)
EXTENDS Integers, Sequences, FiniteSets, TLC

\* ------------------------------------------------------------------ bounds
MaxLen == 3
MaxMsgs == 2
MaxLine == 2
TokWidth == 4
MaxRules == 3
MaxObjs == 2
MaxSorted == 4
\* the sourceCodeChanged messages that the install page receives
MaxUpdates == 3
\* the messages that the install page posts to the port
MaxPosts == 3
\* the styles that the manage page lists
MaxStyles == 3

\* ------------------------------------------------------- program constants
\* JavaScript's undefined where a number is expected (a line, a column, a
\* severity looked up under a missing key).
Undefined == -1
\* rule.id of the empty object {} passed along with the fatal error
UndefinedId == "undefined"
\* 'selector-max-approaching' threshold
SelectorLimit == 3800
\* 'important' rollup threshold
ImportantLimit == 10
\* MAX_IMPORT_COUNT of rule 'import-ie-limit'
MAX_IMPORT_COUNT == 31
\* offset of the word csslint inside a directive comment ("/*" + blank)
CsslintAt == 2

\* ------------------------------------------------------------------- rules
\* The rules of the registry that the model carries, in the order in which
\* the file registers them.
RuleOrder == <<"errors", "import", "important", "selector-max-approaching">>
RuleIds == {RuleOrder[i] : i \in 1..Len(RuleOrder)}

\* A rule object: its id and the init it carries.
RuleObj(id) == [id |-> id, impl |-> id]
\* the keys of headings in rule 'unique-headings'
Headings == {"h1", "h2", "h3", "h4", "h5", "h6"}

\* a registration that leaves an id with the rule that took it first
addRuleKeepFirst(reg, rule) ==
  [list |-> Append(reg.list, rule),
   byId |-> [k \in (DOMAIN reg.byId) \cup {rule.id} |->
               IF k \in DOMAIN reg.byId THEN reg.byId[k] ELSE rule]]

\* addRule: rules.push(rule); rules[rule.id] = rule
addRule(reg, rule) ==
  [list |-> Append(reg.list, rule),
   byId |-> [k \in (DOMAIN reg.byId) \cup {rule.id} |->
               IF k = rule.id THEN rule ELSE reg.byId[k]]]

EmptyRegistry == [list |-> <<>>, byId |-> <<>>]

RECURSIVE RegisterAll(_, _)
RegisterAll(reg, ids) ==
  IF ids = <<>> THEN reg
  ELSE RegisterAll(addRule(reg, RuleObj(Head(ids))), Tail(ids))

\* the registry once the file has been loaded
LoadedRegistry == RegisterAll(EmptyRegistry, RuleOrder)

\* clearRules: rules.length = 0 empties the Array and leaves the properties
\* that addRule stored under the ids
clearRules(reg) == [reg EXCEPT !.list = <<>>]

\* A rule that a caller registers with addRule and whose init throws.
FaultyRule == [id |-> "faulty", impl |-> "throws"]

\* A rule with the id of FaultyRule whose init adds no listener.
QuietRule == [id |-> "faulty", impl |-> "quiet"]

\* The ids of the model in the order of the < of JavaScript strings (by code
\* unit): a < b for ids iff a stands before b here.
IdOrder ==
  <<"errors", "faulty", "import", "important", "selector-max-approaching">>
IdRank(id) == CHOOSE i \in 1..Len(IdOrder) : IdOrder[i] = id

\* (a, b) => a.id < b.id ? -1 : a.id > b.id ? 1 : 0
IdCompare(a, b) ==
  IF IdRank(a.id) < IdRank(b.id) THEN -1
  ELSE IF IdRank(a.id) > IdRank(b.id) THEN 1
  ELSE 0

\* the stable sort of getRules, one insertion
InsertById(sorted, x) ==
  LET n == Len(sorted)
      After == {k \in 1..n : \A h \in k..n : IdCompare(x, sorted[h]) < 0}
      p == n - Cardinality(After)
  IN SubSeq(sorted, 1, p) \o <<x>> \o SubSeq(sorted, p + 1, n)

RECURSIVE SortById(_, _)
SortById(sorted, rest) ==
  IF rest = <<>> THEN sorted
  ELSE SortById(InsertById(sorted, Head(rest)), Tail(rest))

\* an object made once and handed out again by every later call
SharedObject(heap, value) ==
  IF heap = <<>> THEN [ref |-> 1, heap |-> <<value>>]
  ELSE [ref |-> 1, heap |-> heap]

\* const ruleset = {}: a new object, referred to by its position among the
\* objects held; value is what the call has stored in it when it returns
NewObject(heap, value) == [ref |-> Len(heap) + 1, heap |-> Append(heap, value)]

\* a listing that hands out the copy of the Array as it is
getRulesUnsorted(reg) == [result |-> reg.list, rules |-> reg]

\* getRules: rules.slice().sort(...); result is the Array returned, rules the
\* registry after the call (the copy is sorted, not the registry)
getRules(reg) == [result |-> SortById(<<>>, reg.list), rules |-> reg]

\* the worker: postMessage(CSSLint.getRules().map(rule => rule.id))
getAllRuleIds(reg) ==
  [i \in 1..Len(getRules(reg).result) |-> getRules(reg).result[i].id]

\* ---------------------------------------------------------------- rulesets
\* A ruleset object: its own keys in insertion order, each with a severity.
\* The keys that are array indices, and the index each denotes.
IndexKeys == {"0", "1"}
IndexOfKey(id) == IF id = "0" THEN 0 ELSE 1
IsIndexKey(r) == r.id \in IndexKeys
IsNameKey(r) == r.id \notin IndexKeys

RECURSIVE SortKeys(_)
SortKeys(ks) ==
  IF Len(ks) <= 1 THEN ks
  ELSE IF IndexOfKey(ks[1]) <= IndexOfKey(ks[2])
  THEN <<ks[1]>> \o SortKeys(Tail(ks))
  ELSE <<ks[2]>> \o SortKeys(<<ks[1]>> \o Tail(Tail(ks)))

\* Object.keys(ruleset): index keys ascending, then the others as inserted
Keys(rs) ==
  LET ids(q) == [i \in 1..Len(q) |-> q[i].id]
  IN SortKeys(ids(SelectSeq(rs, IsIndexKey))) \o ids(SelectSeq(rs, IsNameKey))
HasKey(rs, id) == \E i \in 1..Len(rs) : rs[i].id = id
Get(rs, id) ==
  IF HasKey(rs, id)
  THEN rs[CHOOSE i \in 1..Len(rs) : rs[i].id = id].sev
  ELSE Undefined
\* ruleset[id] = v
Put(rs, id, v) ==
  IF HasKey(rs, id)
  THEN [i \in 1..Len(rs) |-> IF rs[i].id = id THEN [id |-> id, sev |-> v] ELSE rs[i]]
  ELSE Append(rs, [id |-> id, sev |-> v])

\* getRuleset: every registered rule is a warning
RECURSIVE getRulesetFrom(_, _)
getRulesetFrom(list, rs) ==
  IF list = <<>> THEN rs
  ELSE getRulesetFrom(Tail(list), Put(rs, Head(list).id, 1))

getRuleset(reg) == getRulesetFrom(reg.list, <<>>)

\* Object.assign({}, ruleset)
RECURSIVE AssignInto(_, _)
AssignInto(target, src) ==
  IF src = <<>> THEN target
  ELSE AssignInto(Put(target, Head(src).id, Head(src).sev), Tail(src))

CloneRuleset(rs) == AssignInto(<<>>, rs)

\* ---------------------------------------------------------------- Reporter
NoAllow == [l \in {} |-> {}]

\* new Reporter(lines, ruleset, allow, ignore)
NewReporter(lines, ruleset, allow, ignore) ==
  [messages |-> <<>>, stats |-> [n \in {} |-> 0], lines |-> lines,
   ruleset |-> ruleset, allow |-> allow, ignore |-> ignore]

\* this.lines[line - 1]
Evidence(r, line) ==
  IF line - 1 >= 0 /\ line - 1 < Len(r.lines) THEN r.lines[line] ELSE UndefinedId

Push(r, m) == [r EXCEPT !.messages = Append(@, m)]

\* an error() that honours allow and ignore the way report() does
RErrorFiltered(r, message, line, col, ruleId) ==
  IF (line \in DOMAIN r.allow /\ ruleId \in r.allow[line])
     \/ (\E i \in 1..Len(r.ignore) : r.ignore[i][1] <= line /\ line <= r.ignore[i][2])
  THEN r
  ELSE [r EXCEPT !.messages =
          Append(@, [type |-> "error", rollup |-> FALSE,
                     evidence |-> IF line - 1 >= 0 /\ line - 1 < Len(r.lines)
                                  THEN r.lines[line] ELSE "undefined",
                     line |-> line, col |-> col, message |-> message,
                     rule |-> ruleId])]

\* Reporter.error
RError(r, message, line, col, ruleId) ==
  Push(r, [type |-> "error", rollup |-> FALSE, evidence |-> Evidence(r, line),
           line |-> line, col |-> col, message |-> message, rule |-> ruleId])

\* an allow test that looks at the line and forgets the rule
AllowedAnyRule(r, line, ruleId) == line \in DOMAIN r.allow

\* line in this.allow && rule.id in this.allow[line]
Allowed(r, line, ruleId) ==
  line \in DOMAIN r.allow /\ ruleId \in r.allow[line]

\* this.ignore.some(range => range[0] <= line && line <= range[1])
Ignored(r, line) ==
  line # Undefined /\
  \E i \in 1..Len(r.ignore) : r.ignore[i][1] <= line /\ line <= r.ignore[i][2]

ReportType(r, ruleId) == IF Get(r.ruleset, ruleId) = 2 THEN "error" ELSE "warning"

\* Reporter.report
RReport(r, message, line, col, ruleId) ==
  IF Allowed(r, line, ruleId) \/ Ignored(r, line)
  THEN r
  ELSE Push(r, [type |-> ReportType(r, ruleId), rollup |-> FALSE,
                evidence |-> Evidence(r, line),
                line |-> line, col |-> col, message |-> message, rule |-> ruleId])

\* Reporter.info
RInfo(r, message, line, col, ruleId) ==
  Push(r, [type |-> "info", rollup |-> FALSE, evidence |-> Evidence(r, line),
           line |-> line, col |-> col, message |-> message, rule |-> ruleId])

\* Reporter.rollupError
RRollupError(r, message, ruleId) ==
  Push(r, [type |-> "error", rollup |-> TRUE, evidence |-> UndefinedId,
           line |-> Undefined, col |-> Undefined, message |-> message, rule |-> ruleId])

\* a rollupWarn that an ignore range or an allow entry suppresses
RRollupWarnSuppressed(r, message, ruleId) ==
  IF r.ignore # <<>> \/ DOMAIN r.allow # {} THEN r
  ELSE Push(r, [type |-> "warning", rollup |-> TRUE, evidence |-> UndefinedId,
                line |-> Undefined, col |-> Undefined, message |-> message,
                rule |-> ruleId])

\* Reporter.rollupWarn
RRollupWarn(r, message, ruleId) ==
  Push(r, [type |-> "warning", rollup |-> TRUE, evidence |-> UndefinedId,
           line |-> Undefined, col |-> Undefined, message |-> message, rule |-> ruleId])

\* a stat that keeps the value first written under a name
RStatKeepFirst(r, name, value) ==
  IF name \in DOMAIN r.stats THEN r
  ELSE [r EXCEPT !.stats = [n \in (DOMAIN @) \cup {name} |->
                              IF n = name THEN value ELSE @[n]]]

\* Reporter.stat
RStat(r, name, value) ==
  [r EXCEPT !.stats = [n \in (DOMAIN @) \cup {name} |->
                         IF n = name THEN value ELSE @[n]]]

\* -------------------------------------------------------------------- text
\* A lexical item of the text.  word is the keyword of a comment as written
\* ("" for a comment that is no directive), body what follows it up to the
\* closing of the comment; nsel and nimp are the numbers of selectors and of
\* !important declarations of a style rule; hasLine tells whether the
\* exception of a fatal piece carries line and col.
Tok(k, word, body, nsel, nimp, hasLine) ==
  [k |-> k, word |-> word, body |-> body, nsel |-> nsel, nimp |-> nimp,
   hasLine |-> hasLine]

NL == Tok("nl", "", "", 0, 0, FALSE)
Cmt(word, body) == Tok("cmt", word, body, 0, 0, FALSE)
StyleRule(nsel, nimp) == Tok("rule", "", "", nsel, nimp, FALSE)
ImportStmt == Tok("import", "", "", 0, 0, FALSE)
Malformed == Tok("error", "", "", 0, 0, FALSE)
Fatal(hasLine) == Tok("fatal", "", "", 0, 0, hasLine)
\* @page { margin-top: 1cm }
PageBlock == Tok("page", "", "", 0, 0, FALSE)
\* a { margin-top: 0; margin-bottom: 0; margin-left: 0; margin-right: 0 }
MarginRule == Tok("margins", "", "", 1, 0, FALSE)
Comments ==
  {Cmt("", ""),
   Cmt("csslint", "allow: important "),
   Cmt("csslint", "ignore:start "),
   Cmt("csslint", "ignore:end "),
   Cmt("csslint", "important:false "),
   Cmt("CSSLint", "Errors:False ")}

Tokens ==
  {NL, ImportStmt, Malformed, Fatal(FALSE), Fatal(TRUE),
   StyleRule(1, 1), StyleRule(SelectorLimit, ImportantLimit)}
  \cup Comments

Texts == UNION {[1..n -> Tokens] : n \in 0..MaxLen}

\* the ruleset objects a caller passes (NoArg: verify(text) without ruleset)
NoArg == <<[id |-> "", sev |-> Undefined]>>
Sev(id, v) == [id |-> id, sev |-> v]
ArgRulesets ==
  {NoArg,
   <<>>,
   <<Sev("important", 0)>>,
   <<Sev("important", 2)>>,
   <<Sev("errors", 0)>>,
   <<Sev("import", 2), Sev("errors", 1)>>,
   <<Sev("important", 1), Sev("selector-max-approaching", 2)>>}

\* String.prototype.toLowerCase on the words and bodies of Comments and on
\* the names and values of declarations
ToLowerCase(s) ==
  CASE s = "CSSLint" -> "csslint"
    [] s = "Errors:False " -> "errors:false "
    [] s = "FLOAT" -> "float"
    [] s = "None" -> "none"
    [] s = "Font-Size" -> "font-size"
    [] OTHER -> s

\* text.length
Length(text) == TokWidth * Len(text)
\* offset of item j (1-based position in the sequence)
Offset(j) == TokWidth * (j - 1)

\* text.indexOf('/*', 0)
IndexOfComment(text) ==
  LET S == {j \in 1..Len(text) : text[j].k = "cmt"}
  IN IF S = {} THEN -1 ELSE Offset(CHOOSE j \in S : \A i \in S : j <= i)

\* text.indexOf('csslint', from): the search is case-sensitive
IndexOfCsslint(text, from) ==
  LET S == {j \in 1..Len(text) :
              text[j].k = "cmt" /\ text[j].word = "csslint"
              /\ Offset(j) + CsslintAt >= from}
  IN IF S = {} THEN -1
     ELSE Offset(CHOOSE j \in S : \A i \in S : j <= i) + CsslintAt

\* text.lastIndexOf('/*', upto)
LastIndexOfComment(text, upto) ==
  LET S == {j \in 1..Len(text) : text[j].k = "cmt" /\ Offset(j) <= upto}
  IN IF S = {} THEN -1 ELSE Offset(CHOOSE j \in S : \A i \in S : j >= i)

\* text.indexOf('\n', from)
IndexOfNewline(text, from) ==
  LET S == {j \in 1..Len(text) : text[j].k = "nl" /\ Offset(j) >= from}
  IN IF S = {} THEN -1 ELSE Offset(CHOOSE j \in S : \A i \in S : j <= i)

\* x + 1 || y
PlusOneOr(x, y) == IF x + 1 # 0 THEN x + 1 ELSE y

\* the value verify assigns to RX_EMBEDDED.lastIndex before the extraction
PreScan(text) ==
  LastIndexOfComment(text,
    IndexOfCsslint(text, PlusOneOr(IndexOfComment(text), Length(text))) + 1)

\* RX_EMBEDDED.exec(text) with the cursor at from: the first directive
\* comment, in any letter case, that starts at or after from; 0 when none
\* matches (null).  A match leaves the cursor behind the comment.
Exec(text, from) ==
  LET S == {j \in 1..Len(text) :
              text[j].k = "cmt" /\ ToLowerCase(text[j].word) = "csslint"
              /\ Offset(j) >= from}
  IN IF S = {} THEN 0 ELSE CHOOSE j \in S : \A i \in S : j <= i

\* ovr.split(':', 1): an Array holding the part of ovr before the first colon
Split1(ovr) ==
  [isArray |-> TRUE,
   items |-> <<CASE ovr = "allow: important " -> "allow"
                 [] ovr = "ignore:start " -> "ignore"
                 [] ovr = "ignore:end " -> "ignore"
                 [] ovr = "important:false " -> "important"
                 [] ovr = "errors:false " -> "errors"
                 [] OTHER -> ovr>>]

\* whether value.trim is a function: String.prototype has trim, Array.prototype has not
HasTrim(value) == ~value.isArray

\* EBMEDDED_RULE_VALUE_MAP[value]; Undefined for a value that is no key
EBMEDDED_RULE_VALUE_MAP(value) ==
  CASE value \in {"true", "2"} -> 2
    [] value \in {"", "1"} -> 1
    [] value \in {"false", "0"} -> 0
    [] OTHER -> Undefined

\* mapped === undefined ? 1 : mapped
MappedSeverity(value) ==
  IF EBMEDDED_RULE_VALUE_MAP(value) = Undefined THEN 1
  ELSE EBMEDDED_RULE_VALUE_MAP(value)

\* an end of line that lets every directive through
EolAtEnd(text, eol) == Length(text)

\* eol = (text.indexOf('\n', eol) + 1 || text.length + 1) - 1
NextEol(text, eol) == PlusOneOr(IndexOfNewline(text, eol), Length(text) + 1) - 1

\* ------------------------------------------------- applyEmbeddedOverrides
\* The for loop of applyEmbeddedOverrides, entered with the cursor that the
\* pre-scan left in RX_EMBEDDED.lastIndex.  ignoreStart is Undefined for
\* null.  The result tells whether the function threw, and where it left
\* the cursor, the ruleset, allow and ignore.
RECURSIVE ExtractLoop(_, _, _, _, _, _, _, _)
ExtractLoop(text, cursor, eol, lineno, ignoreStart, ruleset, allow, ignore) ==
  LET m == Exec(text, cursor)
      eol2 == NextEol(text, eol)
  IN IF m = 0
     THEN \* exec returned null and reset the cursor; close a remaining block
          [threw |-> FALSE, lastIndex |-> 0, lineno |-> lineno,
           ruleset |-> ruleset, allow |-> allow,
           ignore |-> IF ignoreStart # Undefined
                      THEN Append(ignore, <<ignoreStart, lineno>>)
                      ELSE ignore]
     ELSE IF eol2 < Offset(m)
     THEN \* continue
          ExtractLoop(text, Offset(m) + TokWidth, eol2, lineno + 1,
                      ignoreStart, ruleset, allow, ignore)
     ELSE LET ovr == ToLowerCase(text[m].body)
              cmd == Split1(ovr)
          IN \* switch (cmd.trim()): cmd is the Array that split returned, and
             \* calling its missing trim method raises a TypeError before any
             \* case of the switch is selected
             [threw |-> ~HasTrim(cmd), lastIndex |-> Offset(m) + TokWidth,
              lineno |-> lineno, ruleset |-> ruleset, allow |-> allow,
              ignore |-> ignore]

applyEmbeddedOverrides(text, cursor, ruleset, allow, ignore) ==
  ExtractLoop(text, cursor, 0, 0, Undefined, ruleset, allow, ignore)

\* ------------------------------------------------------------ parser events
\* line and column at which item j of the text starts
LineOf(text, j) == 1 + Cardinality({i \in 1..(j - 1) : text[i].k = "nl"})
ColOf(text, j) ==
  LET S == {i \in 1..(j - 1) : text[i].k = "nl"}
  IN IF S = {} THEN Offset(j) + 1
     ELSE Offset(j) - Offset(CHOOSE i \in S : \A h \in S : i >= h)

Event(type, line, col, nsel, important) ==
  [type |-> type, line |-> line, col |-> col, nsel |-> nsel,
   important |-> important]

Repeat(x, n) == [i \in 1..n |-> x]

\* a property event carries the name of the property
Named(ev, name) ==
  [f \in (DOMAIN ev) \cup {"name"} |-> IF f = "name" THEN name ELSE ev[f]]

\* values of src that match the regex of 'bulletproof-font-face',
\* /^\s?url\(['"].+\.eot\?.*['"]\)\s*format\(['"]embedded-opentype['"]\).*$/i
BulletproofValues == {"url('x.eot?#iefix') format('embedded-opentype')"}

\* mapping.margin of rule 'shorthand'
MarginProperties == <<"margin-top", "margin-bottom", "margin-left", "margin-right">>

\* the events the parser emits for item j; "throw" stands for the parser
\* raising an exception, with or without line and col
EventsOf(text, j) ==
  LET t == text[j]
      l == LineOf(text, j)
      c == ColOf(text, j)
  IN CASE t.k = "rule" ->
            <<Event("startrule", l, c, t.nsel, FALSE)>>
            \o Repeat(Named(Event("property", l, c, 0, TRUE), "color"), t.nimp)
            \o <<Event("endrule", l, c, 0, FALSE)>>
       [] t.k = "page" ->
            <<Event("startpage", l, c, 0, FALSE),
              Named(Event("property", l, c, 0, FALSE), "margin-top"),
              Event("endpage", l, c, 0, FALSE)>>
       [] t.k = "margins" ->
            <<Event("startrule", l, c, 1, FALSE)>>
            \o [i \in 1..Len(MarginProperties) |->
                  Named(Event("property", l, c, 0, FALSE), MarginProperties[i])]
            \o <<Event("endrule", l, c, 0, FALSE)>>
       [] t.k = "import" -> <<Event("import", l, c, 0, FALSE)>>
       [] t.k = "imports" -> Repeat(Event("import", l, c, 0, FALSE), t.n)
       [] t.k = "block" ->
            <<[type |-> t.open, line |-> l, col |-> c,
               nsel |-> Len(t.selectors), important |-> FALSE,
               selectors |-> t.selectors]>>
            \o [i \in 1..Len(t.declarations) |->
                  [type |-> "property", line |-> l, col |-> c + i, nsel |-> 0,
                   important |-> FALSE, name |-> t.declarations[i].name,
                   value |-> t.declarations[i].value,
                   valueType |-> t.declarations[i].type]]
            \o <<Event(t.close, l, c, 0, FALSE)>>
       [] t.k = "error" -> <<Event("error", l, c, 0, FALSE)>>
       [] t.k = "fatal" ->
            <<IF t.hasLine THEN Event("throw", l, c, 0, FALSE)
              ELSE Event("throw", Undefined, Undefined, 0, FALSE)>>
       [] OTHER -> <<>>

RECURSIVE EventsFrom(_, _)
EventsFrom(text, j) ==
  IF j > Len(text) THEN <<Event("endstylesheet", Undefined, Undefined, 0, FALSE)>>
  ELSE EventsOf(text, j) \o EventsFrom(text, j + 1)

\* parser.parse(text): the event stream of the whole text
Events(text) ==
  <<Event("startstylesheet", Undefined, Undefined, 0, FALSE)>> \o EventsFrom(text, 1)

\* -------------------------------------------------------------- rule inits
\* A run: the Reporter, the listeners added to the parser so far, in order,
\* the counters captured by the listeners of each rule, and whether a
\* listener has thrown.
NewRun(reporter, closure) ==
  [reporter |-> reporter, listeners |-> <<>>, closure |-> closure,
   thrown |-> FALSE]

Listener(type, impl) == [type |-> type, impl |-> impl]

\* a count kept on the rule object from one run to the next
KeepCount(old) == old

\* the local count that the init of a rule declares for its listeners
InitCount(old) == 0

\* rule.init(parser, reporter): the listeners it adds and the locals it declares
RuleInit(impl, run) ==
  CASE impl = "errors" ->
         [run EXCEPT !.listeners = @ \o <<Listener("error", impl)>>]
    [] impl = "import" ->
         [run EXCEPT !.listeners = @ \o <<Listener("import", impl)>>]
    [] impl = "important" ->
         [run EXCEPT !.listeners = @ \o <<Listener("property", impl),
                                           Listener("endstylesheet", impl)>>,
                     !.closure[impl] = InitCount(@)]
    [] impl = "selector-max-approaching" ->
         [run EXCEPT !.listeners = @ \o <<Listener("startrule", impl),
                                           Listener("endstylesheet", impl)>>,
                     !.closure[impl] = InitCount(@)]
    [] impl = "shorthand" ->
         \* let properties: undefined until a startrule or startfontface
         [run EXCEPT !.listeners = @ \o <<Listener("startrule", impl),
                                           Listener("startfontface", impl),
                                           Listener("property", impl),
                                           Listener("endrule", impl),
                                           Listener("endfontface", impl)>>,
                     !.closure[impl] = Undefined]
    [] impl = "bulletproof-font-face" ->
         \* let fontFaceRule = false; let firstSrc = true;
         \* let ruleFailed = false; let line, col;
         [run EXCEPT !.listeners = @ \o <<Listener("startfontface", impl),
                                           Listener("property", impl),
                                           Listener("endfontface", impl)>>,
                     !.closure[impl] =
                       [fontFaceRule |-> FALSE, firstSrc |-> TRUE,
                        ruleFailed |-> FALSE, line |-> Undefined,
                        col |-> Undefined]]
    [] impl = "import-ie-limit" ->
         [run EXCEPT !.listeners = @ \o <<Listener("startpage", impl),
                                           Listener("import", impl),
                                           Listener("endstylesheet", impl)>>,
                     !.closure[impl] = 0]
    [] impl = "unique-headings" ->
         [run EXCEPT !.listeners = @ \o <<Listener("startrule", impl),
                                           Listener("endstylesheet", impl)>>,
                     !.closure[impl] = [h \in Headings |-> 0]]
    [] impl = "unqualified-attributes" ->
         [run EXCEPT !.listeners = @ \o <<Listener("startrule", impl)>>]
    [] impl = "box-model" ->
         \* let properties; let boxSizing = false;
         [run EXCEPT !.listeners = @ \o <<Listener("startrule", impl),
                                           Listener("startfontface", impl),
                                           Listener("startpage", impl),
                                           Listener("property", impl),
                                           Listener("endrule", impl),
                                           Listener("endfontface", impl),
                                           Listener("endpage", impl)>>,
                     !.closure[impl] = [properties |-> {}, boxSizing |-> FALSE]]
    [] impl \in {"floats", "font-sizes"} ->
         [run EXCEPT !.listeners = @ \o <<Listener("property", impl),
                                           Listener("endstylesheet", impl)>>,
                     !.closure[impl] = 0]
    [] OTHER -> run

\* a threshold that the count has to exceed
TooManyStrict(count) == count > ImportantLimit

\* count >= 10 in the 'endstylesheet' listener of 'important'
TooMany(count) == count >= ImportantLimit

\* one listener of a rule receiving an event
Handle(l, ev, run) ==
  LET \* for (i = 0; i < items.length; i++): Step applied to the items in order
      RECURSIVE ForEach(_, _, _)
      ForEach(Step(_, _), acc, items) ==
        IF items = <<>> THEN acc
        ELSE ForEach(Step, Step(acc, Head(items)), Tail(items))
  IN
  CASE l.impl = "errors" ->
         [run EXCEPT !.reporter =
            RError(@, "parse error", ev.line, ev.col, "errors")]
    [] l.impl = "import" ->
         [run EXCEPT !.reporter =
            RReport(@, "@import prevents parallel downloads", ev.line, ev.col, "import")]
    [] l.impl = "important" /\ l.type = "property" ->
         IF ev.important
         THEN [run EXCEPT !.closure["important"] = @ + 1,
                          !.reporter =
                            RReport(@, "Use of !important", ev.line, ev.col, "important")]
         ELSE run
    [] l.impl = "important" /\ l.type = "endstylesheet" ->
         LET count == run.closure["important"]
             r1 == RStat(run.reporter, "important", count)
         IN [run EXCEPT !.reporter =
               IF TooMany(count)
               THEN RRollupWarn(r1, "Too many !important declarations", "important")
               ELSE r1]
    [] l.impl = "selector-max-approaching" /\ l.type = "startrule" ->
         [run EXCEPT !.closure["selector-max-approaching"] = @ + ev.nsel]
    [] l.impl = "selector-max-approaching" /\ l.type = "endstylesheet" ->
         IF run.closure["selector-max-approaching"] >= SelectorLimit
         THEN [run EXCEPT !.reporter =
                 RReport(@, "You have too many selectors", 0, 0,
                         "selector-max-approaching")]
         ELSE run
    [] l.impl = "shorthand" /\ l.type \in {"startrule", "startfontface"} ->
         \* properties = {}: the closure holds the number of its keys
         [run EXCEPT !.closure["shorthand"] = 0]
    [] l.impl = "shorthand" /\ l.type = "property" ->
         IF \A i \in 1..Len(MarginProperties) : MarginProperties[i] # ev.name
         THEN run
         ELSE IF run.closure["shorthand"] = Undefined
         THEN \* properties[name] = 1 on undefined: TypeError
              [run EXCEPT !.thrown = TRUE]
         ELSE [run EXCEPT !.closure["shorthand"] = @ + 1]
    [] l.impl = "shorthand" /\ l.type \in {"endrule", "endfontface"} ->
         IF run.closure["shorthand"] = Undefined
         THEN [run EXCEPT !.thrown = TRUE]
         ELSE IF run.closure["shorthand"] = Len(MarginProperties)
         THEN [run EXCEPT !.reporter =
                 RReport(@, "The properties can be replaced by margin",
                         ev.line, ev.col, "shorthand")]
         ELSE run
    [] l.impl = "bulletproof-font-face" /\ l.type = "startfontface" ->
         [run EXCEPT !.closure[l.impl].fontFaceRule = TRUE]
    [] l.impl = "bulletproof-font-face" /\ l.type = "property" ->
         LET c == run.closure[l.impl]
             seen == [c EXCEPT !.line = ev.line, !.col = ev.col]
             \* value.match(regex)
             match == ev.value \in BulletproofValues
         IN IF ~c.fontFaceRule THEN run
            ELSE IF ToLowerCase(ev.name) # "src"
            THEN [run EXCEPT !.closure[l.impl] = seen]
            ELSE IF ~match /\ c.firstSrc
            THEN [run EXCEPT !.closure[l.impl] =
                    [seen EXCEPT !.ruleFailed = TRUE, !.firstSrc = FALSE]]
            ELSE IF match /\ ~c.firstSrc
            THEN [run EXCEPT !.closure[l.impl] =
                    [seen EXCEPT !.ruleFailed = FALSE]]
            ELSE [run EXCEPT !.closure[l.impl] = seen]
    [] l.impl = "bulletproof-font-face" /\ l.type = "endfontface" ->
         LET c == run.closure[l.impl]
         IN [run EXCEPT !.closure[l.impl].fontFaceRule = FALSE,
                        !.reporter =
                          IF c.ruleFailed
                          THEN RReport(@, "@font-face declaration doesn't follow the fontspring bulletproof syntax.",
                                       c.line, c.col, l.impl)
                          ELSE @]
    [] l.impl = "import-ie-limit" /\ l.type = "startpage" ->
         [run EXCEPT !.closure[l.impl] = 0]
    [] l.impl = "import-ie-limit" /\ l.type = "import" ->
         [run EXCEPT !.closure[l.impl] = @ + 1]
    [] l.impl = "import-ie-limit" /\ l.type = "endstylesheet" ->
         IF run.closure[l.impl] > MAX_IMPORT_COUNT
         THEN [run EXCEPT !.reporter =
                 RRollupError(@, "Too many @import rules", l.impl)]
         ELSE run
    [] l.impl = "unique-headings" /\ l.type = "startrule" ->
         \* let selector, part, pseudo, i, j: pseudo is declared once for
         \* all the selectors of the rule
         LET Step(acc, part) ==
               IF part.elementName \notin Headings THEN acc
               ELSE LET pseudo == acc.pseudo
                                  \/ \E j \in 1..Len(part.modifiers) :
                                        part.modifiers[j] = "pseudo"
                        n == acc.headings[part.elementName] + 1
                    IN IF pseudo THEN [acc EXCEPT !.pseudo = TRUE]
                       ELSE [acc EXCEPT
                               !.headings[part.elementName] = n,
                               !.reporter =
                                 IF n > 1
                                 THEN RReport(@, "Heading has already been defined.",
                                              part.line, part.col, l.impl)
                                 ELSE @]
             done == ForEach(Step,
                             [pseudo |-> FALSE, headings |-> run.closure[l.impl],
                              reporter |-> run.reporter],
                             [i \in 1..Len(ev.selectors) |->
                                [elementName |-> ev.selectors[i].elementName,
                                 modifiers |-> ev.selectors[i].modifiers,
                                 line |-> ev.line, col |-> ev.col + i]])
         IN [run EXCEPT !.closure[l.impl] = done.headings,
                        !.reporter = done.reporter]
    [] l.impl = "unique-headings" /\ l.type = "endstylesheet" ->
         IF \E h \in Headings : run.closure[l.impl][h] > 1
         THEN [run EXCEPT !.reporter =
                 RRollupWarn(@, "You have headings defined in this stylesheet.",
                             l.impl)]
         ELSE run
    [] l.impl = "unqualified-attributes" /\ l.type = "startrule" ->
         \* let selectorContainsClassOrId = false: declared once for all
         \* the selectors of the rule
         LET Step(acc, part) ==
               LET found == acc.selectorContainsClassOrId
                            \/ \E k \in 1..Len(part.modifiers) :
                                  part.modifiers[k] \in {"class", "id"}
                   Attr(r, modifier) ==
                     IF modifier = "attribute" /\ part.elementName \in {"", "*"}
                     THEN RReport(r, "Unqualified attribute selectors are known to be slow.",
                                  part.line, part.col, l.impl)
                     ELSE r
               IN [selectorContainsClassOrId |-> found,
                   reporter |-> IF found THEN acc.reporter
                                ELSE ForEach(Attr, acc.reporter, part.modifiers)]
             done == ForEach(Step,
                             [selectorContainsClassOrId |-> FALSE,
                              reporter |-> run.reporter],
                             [i \in 1..Len(ev.selectors) |->
                                [elementName |-> ev.selectors[i].elementName,
                                 modifiers |-> ev.selectors[i].modifiers,
                                 line |-> ev.line, col |-> ev.col + i]])
         IN [run EXCEPT !.reporter = done.reporter]
    [] l.impl = "box-model"
       /\ l.type \in {"startrule", "startfontface", "startpage"} ->
         [run EXCEPT !.closure[l.impl] = [properties |-> {}, boxSizing |-> FALSE]]
    [] l.impl = "box-model" /\ l.type = "property" ->
         LET name == ToLowerCase(ev.name)
             \* sizeProps.width[name] || sizeProps.height[name]: the arrays
             \* hold the names as elements, under the keys "0" to "5"
             SizePropKeys == <<"0", "1", "2", "3", "4", "5">>
             listed == \E i \in 1..Len(SizePropKeys) : SizePropKeys[i] = name
         IN IF listed
            THEN IF ev.value \notin {"0", "0px"}
                    /\ (name # "border" \/ ToLowerCase(ev.value) # "none")
                 THEN [run EXCEPT !.closure[l.impl].properties = @ \cup {name}]
                 ELSE run
            ELSE IF name \in {"width", "height"}
                    /\ ev.valueType \in {"length", "percentage"}
            THEN [run EXCEPT !.closure[l.impl].properties = @ \cup {name}]
            ELSE IF name = "box-sizing"
            THEN [run EXCEPT !.closure[l.impl].boxSizing = TRUE]
            ELSE run
    [] l.impl = "box-model"
       /\ l.type \in {"endrule", "endfontface", "endpage"} ->
         \* for (const size in sizeProps) for (const prop in sizeProps[size]):
         \* prop runs over the keys of the array
         LET c == run.closure[l.impl]
             SizePropKeys == <<"0", "1", "2", "3", "4", "5">>
             Width(r, prop) ==
               IF prop # "padding" \/ prop \notin c.properties THEN r
               ELSE RReport(r, "Using width with padding can sometimes make elements larger than you expect.",
                            ev.line, ev.col, l.impl)
             Height(r, prop) ==
               IF prop # "padding" \/ prop \notin c.properties THEN r
               ELSE RReport(r, "Using height with padding can sometimes make elements larger than you expect.",
                            ev.line, ev.col, l.impl)
             r1 == IF "width" \in c.properties
                   THEN ForEach(Width, run.reporter, SizePropKeys)
                   ELSE run.reporter
             r2 == IF "height" \in c.properties
                   THEN ForEach(Height, r1, SizePropKeys)
                   ELSE r1
         IN IF c.boxSizing THEN run ELSE [run EXCEPT !.reporter = r2]
    [] l.impl = "floats" /\ l.type = "property" ->
         IF ToLowerCase(ev.name) = "float" /\ ToLowerCase(ev.value) # "none"
         THEN [run EXCEPT !.closure[l.impl] = @ + 1]
         ELSE run
    [] l.impl = "floats" /\ l.type = "endstylesheet" ->
         LET count == run.closure[l.impl]
             r1 == RStat(run.reporter, "floats", count)
         IN [run EXCEPT !.reporter =
               IF count >= 10
               THEN RRollupWarn(r1, "Too many floats", l.impl)
               ELSE r1]
    [] l.impl = "font-sizes" /\ l.type = "property" ->
         IF ev.name = "font-size"
         THEN [run EXCEPT !.closure[l.impl] = @ + 1]
         ELSE run
    [] l.impl = "font-sizes" /\ l.type = "endstylesheet" ->
         LET count == run.closure[l.impl]
             r1 == RStat(run.reporter, "font-sizes", count)
         IN [run EXCEPT !.reporter =
               IF count >= 10
               THEN RRollupWarn(r1, "Too many font-size declarations", l.impl)
               ELSE r1]
    [] OTHER -> run

\* the listeners ls called one after the other with the event, up to one
\* that throws
RECURSIVE Call(_, _, _)
Call(ls, ev, run) ==
  IF ls = <<>> \/ run.thrown THEN run
  ELSE Call(Tail(ls), ev, Handle(Head(ls), ev, run))

\* parser.fire(event): every listener of the event's type, in the order added
Fire(ev, ls, run) ==
  LET OfType(l) == l.type = ev.type
  IN Call(SelectSeq(ls, OfType), ev, run)

\* the position of the first event at which the parser throws, 0 if none
ThrowAt(evs) ==
  LET S == {i \in 1..Len(evs) : evs[i].type = "throw"}
  IN IF S = {} THEN 0 ELSE CHOOSE i \in S : \A h \in S : i <= h

\* the events lo..hi fired in order, by halves, up to a listener that
\* throws; a parser that holds no listener at all fires nothing
RECURSIVE FireAll(_, _, _, _)
FireAll(evs, lo, hi, run) ==
  IF lo > hi \/ run.listeners = <<>> \/ run.thrown THEN run
  ELSE IF lo = hi THEN Fire(evs[lo], run.listeners, run)
  ELSE FireAll(evs, ((lo + hi) \div 2) + 1, hi,
               FireAll(evs, lo, (lo + hi) \div 2, run))

\* catch (ex) { reporter.error('Fatal error, cannot continue: ' + ex.message,
\*                             ex.line, ex.col, {}) }
\* for the exception of the parser at event t (0: none); the TypeError of a
\* listener carries neither line nor col
Caught(fired, evs, t) ==
  IF fired.thrown
  THEN [fired EXCEPT !.reporter =
          RError(@, "Fatal error, cannot continue", Undefined, Undefined,
                 UndefinedId)]
  ELSE IF t = 0 THEN fired
  ELSE [fired EXCEPT !.reporter =
          RError(@, "Fatal error, cannot continue", evs[t].line, evs[t].col,
                 UndefinedId)]

\* a parse that records the exception and goes on firing the events behind it
ParseContinues(evs, run) ==
  LET t == ThrowAt(evs)
  IN IF t = 0 THEN Caught(FireAll(evs, 1, Len(evs), run), evs, 0)
     ELSE LET NoThrow(ev) == ev.type # "throw"
              rest == SelectSeq(SubSeq(evs, t + 1, Len(evs)), NoThrow)
          IN FireAll(rest, 1, Len(rest),
                     Caught(FireAll(evs, 1, t - 1, run), evs, t))

\* try { parser.parse(text) } catch (ex) { reporter.error(...) }: the events
\* are fired up to the one at which the parser or a listener throws
Parse(evs, run) ==
  IF ThrowAt(evs) = 0 THEN Caught(FireAll(evs, 1, Len(evs), run), evs, 0)
  ELSE Caught(FireAll(evs, 1, ThrowAt(evs) - 1, run), evs, ThrowAt(evs))

\* -------------------------------------------------------------------- sort
\* a.line - b.line, where a missing line gives NaN, which sort reads as 0
LineDiff(a, b) ==
  IF a.line = Undefined \/ b.line = Undefined THEN 0 ELSE a.line - b.line

\* a comparator that forgets the rollup flag
CompareByLineOnly(a, b) == LineDiff(a, b)

\* the comparator of verify: rollups at the bottom, then by line
Compare(a, b) ==
  IF a.rollup /\ ~b.rollup THEN 1
  ELSE IF ~a.rollup /\ b.rollup THEN -1
  ELSE LineDiff(a, b)

\* a sort that places an element before the elements it compares equal to
InsertBeforeEqual(sorted, x) ==
  LET n == Len(sorted)
      After == {k \in 1..n : \A h \in k..n : Compare(x, sorted[h]) <= 0}
      p == n - Cardinality(After)
  IN SubSeq(sorted, 1, p) \o <<x>> \o SubSeq(sorted, p + 1, n)

\* a sort that drops an element equal to one it holds already
InsertUnlessPresent(sorted, x) ==
  LET n == Len(sorted)
      After == {k \in 1..n : \A h \in k..n : Compare(x, sorted[h]) < 0}
      p == n - Cardinality(After)
  IN IF \E k \in 1..n : sorted[k] = x THEN sorted
     ELSE SubSeq(sorted, 1, p) \o <<x>> \o SubSeq(sorted, p + 1, n)

\* Array.prototype.sort is stable: an element is placed behind the last
\* element of the sorted prefix that the comparator does not put after it
InsertSorted(sorted, x) ==
  LET n == Len(sorted)
      After == {k \in 1..n : \A h \in k..n : Compare(x, sorted[h]) < 0}
      p == n - Cardinality(After)
  IN SubSeq(sorted, 1, p) \o <<x>> \o SubSeq(sorted, p + 1, n)

\* sorted holds the first Len(sorted) elements of msgs in order; the elements
\* after them, up to position hi, are inserted one after the other, by halves
RECURSIVE SortFrom(_, _, _)
SortFrom(sorted, msgs, hi) ==
  LET lo == Len(sorted) + 1
  IN IF lo > hi THEN sorted
     ELSE IF lo = hi THEN InsertSorted(sorted, msgs[lo])
     ELSE SortFrom(SortFrom(sorted, msgs, (lo + hi) \div 2), msgs, hi)

SortMessages(msgs) == SortFrom(<<>>, msgs, Len(msgs))

\* ------------------------------------------------------------------ verify
\* rules[id]: the registry is an Array that also holds every rule under its
\* id; an index key reads an element, 'length' the number of elements
Lookup(reg, id) ==
  IF id \in DOMAIN reg.byId THEN [kind |-> "rule", rule |-> reg.byId[id]]
  ELSE IF id = "length" THEN [kind |-> "number", value |-> Len(reg.list)]
  ELSE IF id \in IndexKeys /\ IndexOfKey(id) < Len(reg.list)
  THEN [kind |-> "rule", rule |-> reg.list[IndexOfKey(id) + 1]]
  ELSE [kind |-> "undefined"]

\* whether the init of a rule throws when it is called
InitThrows(rule) == rule.impl = "throws"

\* one call of init: the key that led to it, the rule's id and its init
InitCall(key, rule) == [key |-> key, id |-> rule.id, impl |-> rule.impl]

\* an init loop that catches what an init throws and goes on
RECURSIVE InitRules(_, _, _, _, _)
InitRulesCaught(keys, ruleset, reg, run, inited) ==
  IF keys = <<>>
  THEN [threw |-> FALSE, site |-> "none", run |-> run, inited |-> inited]
  ELSE LET id == Head(keys)
           found == Lookup(reg, id)
       IN IF Get(ruleset, id) = 0 \/ found.kind = "undefined"
             \/ (found.kind = "number" /\ found.value = 0)
          THEN InitRules(Tail(keys), ruleset, reg, run, inited)
          ELSE IF found.kind = "number"
          THEN [threw |-> TRUE, site |-> "rules[id].init", run |-> run,
                inited |-> inited]
          ELSE InitRules(Tail(keys), ruleset, reg,
                         IF InitThrows(found.rule) THEN run
                         ELSE RuleInit(found.rule.impl, run),
                         Append(inited, InitCall(id, found.rule)))

\* Object.keys(ruleset).forEach(id =>
\*   ruleset[id] && rules[id] && rules[id].init(parser, reporter))
\* inited lists the calls of init: the key that led to it, the rule's id and
\* the init that the rule object carries.
\* site tells what threw: "rules[id].init" the call expression itself (the
\* value has no init method), "rule.init" the init that was called.
InitRules(keys, ruleset, reg, run, inited) ==
  IF keys = <<>>
  THEN [threw |-> FALSE, site |-> "none", run |-> run, inited |-> inited]
  ELSE LET id == Head(keys)
           found == Lookup(reg, id)
       IN IF Get(ruleset, id) = 0 \/ found.kind = "undefined"
             \/ (found.kind = "number" /\ found.value = 0)
          THEN InitRules(Tail(keys), ruleset, reg, run, inited)
          ELSE IF found.kind = "number"
          THEN \* a number has no init method: TypeError
               [threw |-> TRUE, site |-> "rules[id].init", run |-> run,
                inited |-> inited]
          ELSE IF InitThrows(found.rule)
          THEN [threw |-> TRUE, site |-> "rule.init", run |-> run,
                inited |-> Append(inited, InitCall(id, found.rule))]
          ELSE InitRules(Tail(keys), ruleset, reg,
                         RuleInit(found.rule.impl, run),
                         Append(inited, InitCall(id, found.rule)))

\* the ids of the rules whose init was called, and the keys that led there
IdsOf(calls) == [i \in 1..Len(calls) |-> calls[i].id]
KeysOf(calls) == [i \in 1..Len(calls) |-> calls[i].key]
ImplsOf(calls) == [i \in 1..Len(calls) |-> calls[i].impl]

\* ruleset.errors = 2
ForceErrors(ruleset) == Put(ruleset, "errors", 2)

NoReport ==
  [messages |-> <<>>, stats |-> [n \in {} |-> 0], ruleset |-> <<>>,
   allow |-> NoAllow, ignore |-> <<>>]

\* One call verify(text, ruleset) with the registry reg, the cursor and the
\* rule closures as an earlier call left them.  The result gives the way the
\* call ended (status, and for an exception the statement that raised it),
\* the Report, the messages in the order of their emission, the caller's ruleset object after the call (argAfter), whether
\* report.ruleset is that very object (sharesArg), the ids of the rules
\* whose init ran, and the cursor and closures the call leaves behind.
verify(text, arg, reg, closure) ==
  LET given == arg # NoArg
      ruleset0 == IF given THEN arg ELSE getRuleset(reg)
      cursor == PreScan(text)
      scan == cursor >= 0
      ex == IF scan
            THEN applyEmbeddedOverrides(text, cursor, CloneRuleset(ruleset0),
                                        NoAllow, <<>>)
            ELSE [threw |-> FALSE, lastIndex |-> cursor, lineno |-> 0,
                  ruleset |-> ruleset0, allow |-> NoAllow, ignore |-> <<>>]
      ruleset == ForceErrors(ex.ruleset)
      shares == given /\ ~scan
      argAfter == IF shares THEN ruleset ELSE arg
  IN IF ex.threw
     THEN [status |-> "threw", site |-> "applyEmbeddedOverrides",
           report |-> NoReport, emitted |-> <<>>, argBefore |-> arg, argAfter |-> arg,
           sharesArg |-> FALSE, inited |-> <<>>, initKeys |-> <<>>, initImpls |-> <<>>,
           lastIndex |-> ex.lastIndex, closure |-> closure]
     ELSE LET init == InitRules(Keys(ruleset), ruleset, reg,
                                NewRun(NewReporter(<<>>, ruleset, ex.allow, ex.ignore),
                                       closure), <<>>)
          IN IF init.threw
             THEN [status |-> "threw", site |-> init.site,
                   report |-> NoReport, emitted |-> <<>>, argBefore |-> arg, argAfter |-> argAfter,
                   sharesArg |-> FALSE, inited |-> IdsOf(init.inited),
                   initKeys |-> KeysOf(init.inited),
                   initImpls |-> ImplsOf(init.inited),
                   lastIndex |-> ex.lastIndex, closure |-> init.run.closure]
             ELSE LET run == Parse(Events(text), init.run)
                  IN [status |-> "returned", site |-> "none",
                      report |-> [messages |-> SortMessages(run.reporter.messages),
                                  stats |-> run.reporter.stats,
                                  ruleset |-> run.reporter.ruleset,
                                  allow |-> run.reporter.allow,
                                  ignore |-> run.reporter.ignore],
                      emitted |-> run.reporter.messages,
                      argBefore |-> arg, argAfter |-> argAfter,
                      sharesArg |-> shares, inited |-> IdsOf(init.inited),
                      initKeys |-> KeysOf(init.inited),
                   initImpls |-> ImplsOf(init.inited),
                      lastIndex |-> ex.lastIndex, closure |-> run.closure]

\* ------------------------------------------------------------------- state
VARIABLES
  text,       \* the CSS text handed to verify
  arg,        \* the caller's ruleset object (NoArg: none is passed)
  rules,      \* the registry
  lastIndex,  \* RX_EMBEDDED.lastIndex
  closure,    \* the counters of the rules' listeners, as the last run left them
  outcome,    \* the result of the latest verify call
  prev,       \* the result of the call before it
  reporter,   \* a Reporter instance driven directly
  lastOp,     \* the latest operation applied to reporter
  mappings,   \* the objects that getRuleset returned and that callers hold
  call,       \* the latest call of getRules, getAllRuleIds, getRuleset or
              \* write to a held mapping, with what it returned and the
              \* registry and the mappings before it
  page,       \* the install page: its live-reload state, the messages it
              \* posted to the port and the updates it received
  manage      \* the manage page: the sort preference and the styles listed

vars == <<text, arg, rules, lastIndex, closure, outcome, prev, reporter, lastOp,
          mappings, call, page, manage>>

NoOutcome ==
  [status |-> "none", site |-> "none", report |-> NoReport, emitted |-> <<>>,
   argBefore |-> NoArg,
   argAfter |-> NoArg, sharesArg |-> FALSE, inited |-> <<>>, initKeys |-> <<>>, initImpls |-> <<>>,
   lastIndex |-> 0,
   closure |-> [id \in RuleIds |-> 0]]

NoOp == [op |-> "none", line |-> Undefined, col |-> Undefined, rule |-> UndefinedId,
         before |-> <<>>]

NoCall == [op |-> "none", result |-> <<>>, rules |-> EmptyRegistry,
           mappings |-> <<>>]

\* the install page before it is opened
NoPage ==
  [open |-> FALSE, fileUrl |-> FALSE, checked |-> FALSE, liveReload |-> FALSE,
   installed |-> FALSE, posted |-> <<>>, updates |-> <<>>, editor |-> 0,
   shown |-> 0, alerts |-> 0]

\* the manage page before it is opened
NoManage == [sortBy |-> <<>>, given |-> <<>>, styles |-> <<>>, sorted |-> FALSE]

Init ==
  /\ text \in Texts
  /\ arg \in ArgRulesets
  /\ rules = LoadedRegistry
  /\ lastIndex = 0
  /\ closure = [id \in RuleIds |-> 0]
  /\ outcome = NoOutcome
  /\ prev = NoOutcome
  /\ reporter = NewReporter(<<>>, <<>>, NoAllow, <<>>)
  /\ lastOp = NoOp
  /\ mappings = <<>>
  /\ call = NoCall
  /\ page = NoPage
  /\ manage = NoManage

\* CSSLint.verify(text, arg)
Verify ==
  /\ outcome' = verify(text, arg, rules, closure)
  /\ prev' = outcome
  /\ arg' = outcome'.argAfter
  /\ lastIndex' = outcome'.lastIndex
  /\ closure' = outcome'.closure
  /\ UNCHANGED <<page, manage>>
  /\ UNCHANGED <<text, rules, reporter, lastOp, mappings, call>>

Next == Verify

Spec == Init /\ [][Next]_vars

\* ------------------------------------------------- a Reporter driven alone
\* CSSLint._Reporter is exposed, so a Reporter can be constructed with any
\* lines, ruleset, allow and ignore and its methods called in any order.
ReporterLines == {<<"a { }", "b { }">>}
ReporterRulesets == {<<>>, <<Sev("important", 2), Sev("import", 1)>>}
ReporterAllows ==
  {NoAllow,
   [l \in {1} |-> {"important", "errors"}],
   [l \in 1..MaxLine |-> IF l = 1 THEN {"import"} ELSE {"important", "import"}]}
ReporterIgnores == {<<>>, <<<<MaxLine, MaxLine>>>>, <<<<0, 0>>, <<1, MaxLine>>>>}
ReporterRules == {"important", "import"}
ReporterLineArgs == 1..MaxLine

InitReporter ==
  /\ text = <<>>
  /\ arg = NoArg
  /\ rules = LoadedRegistry
  /\ lastIndex = 0
  /\ closure = [id \in RuleIds |-> 0]
  /\ outcome = NoOutcome
  /\ prev = NoOutcome
  /\ \E lines \in ReporterLines, ruleset \in ReporterRulesets,
        allow \in ReporterAllows, ignore \in ReporterIgnores :
       reporter = NewReporter(lines, ruleset, allow, ignore)
  /\ lastOp = NoOp
  /\ mappings = <<>>
  /\ call = NoCall
  /\ page = NoPage
  /\ manage = NoManage

Op(op, line, col, rule) ==
  [op |-> op, line |-> line, col |-> col, rule |-> rule,
   before |-> reporter.messages]

\* the listeners call the Reporter before verify assembles the Report
Room == outcome.status = "none" /\ Len(reporter.messages) < MaxMsgs

Frame ==
  UNCHANGED <<text, arg, rules, lastIndex, closure, outcome, prev, mappings, call,
              page, manage>>

\* reporter.error(message, line, col, rule)
CallError ==
  /\ Room
  /\ \E line \in ReporterLineArgs, rule \in ReporterRules :
       /\ reporter' = RError(reporter, "e", line, 1, rule)
       /\ lastOp' = Op("error", line, 1, rule)
  /\ Frame

\* reporter.report(message, line, col, rule)
CallReport ==
  /\ Room
  /\ \E line \in ReporterLineArgs, rule \in ReporterRules :
       /\ reporter' = RReport(reporter, "r", line, 1, rule)
       /\ lastOp' = Op("report", line, 1, rule)
  /\ Frame

\* reporter.info(message, line, col, rule)
CallInfo ==
  /\ Room
  /\ \E line \in ReporterLineArgs, rule \in ReporterRules :
       /\ reporter' = RInfo(reporter, "i", line, 1, rule)
       /\ lastOp' = Op("info", line, 1, rule)
  /\ Frame

\* reporter.rollupError(message, rule)
CallRollupError ==
  /\ Room
  /\ \E rule \in ReporterRules :
       /\ reporter' = RRollupError(reporter, "re", rule)
       /\ lastOp' = Op("rollupError", Undefined, Undefined, rule)
  /\ Frame

\* reporter.rollupWarn(message, rule)
CallRollupWarn ==
  /\ Room
  /\ \E rule \in ReporterRules :
       /\ reporter' = RRollupWarn(reporter, "rw", rule)
       /\ lastOp' = Op("rollupWarn", Undefined, Undefined, rule)
  /\ Frame

\* reporter.stat(name, value)
CallStat ==
  /\ Room
  /\ \E name \in {"important"}, value \in 0..1 :
       /\ reporter' = RStat(reporter, name, value)
       /\ lastOp' = Op("stat", Undefined, Undefined, name)
  /\ Frame

\* the parser emits an 'error' event while the rule 'errors' listens
ParserErrorEvent ==
  /\ Room
  /\ \E line \in ReporterLineArgs :
       LET run == RuleInit("errors", NewRun(reporter, closure))
       IN /\ reporter' =
               Fire(Event("error", line, 1, 0, FALSE), run.listeners, run).reporter
          /\ lastOp' = Op("errorEvent", line, 1, "errors")
  /\ Frame

\* verify: const report = {messages: reporter.messages, ...};
\* report.messages.sort(...); return report
AssembleReport ==
  /\ outcome' = [NoOutcome EXCEPT
                   !.status = "returned",
                   !.report = [messages |-> SortMessages(reporter.messages),
                               stats |-> reporter.stats,
                               ruleset |-> reporter.ruleset,
                               allow |-> reporter.allow,
                               ignore |-> reporter.ignore],
                   !.emitted = reporter.messages]
  /\ UNCHANGED <<page, manage>>
  /\ UNCHANGED <<text, arg, rules, lastIndex, closure, prev, reporter, lastOp,
                 mappings, call>>

NextReporter ==
  \/ ParserErrorEvent
  \/ CallError
  \/ CallReport
  \/ CallInfo
  \/ CallRollupError
  \/ CallRollupWarn
  \/ CallStat
  \/ AssembleReport

SpecReporter == InitReporter /\ [][NextReporter]_vars

\* ------------------------------------------------- the report of a run
\* The listeners of the rules of a run call report() and rollupWarn() in any
\* order; verify then builds the Report from the Reporter and sorts its
\* messages.
InitSort ==
  /\ text = <<>>
  /\ arg = NoArg
  /\ rules = LoadedRegistry
  /\ lastIndex = 0
  /\ closure = [id \in RuleIds |-> 0]
  /\ outcome = NoOutcome
  /\ prev = NoOutcome
  /\ reporter = NewReporter(<<>>, <<>>, NoAllow, <<>>)
  /\ lastOp = NoOp
  /\ mappings = <<>>
  /\ call = NoCall
  /\ page = NoPage
  /\ manage = NoManage

\* a listener calls reporter.report(message, line, col, rule)
EmitFinding ==
  /\ Len(reporter.messages) < MaxSorted
  /\ \E line \in ReporterLineArgs, rule \in ReporterRules :
       reporter' = RReport(reporter, "r", line, 1, rule)
  /\ UNCHANGED lastOp
  /\ Frame

\* a listener calls reporter.rollupWarn(message, rule)
EmitRollup ==
  /\ Len(reporter.messages) < MaxSorted
  /\ \E rule \in ReporterRules : reporter' = RRollupWarn(reporter, "rw", rule)
  /\ UNCHANGED lastOp
  /\ Frame

NextSort ==
  \/ EmitFinding
  \/ EmitRollup
  \/ AssembleReport

SpecSort == InitSort /\ [][NextSort]_vars

\* ------------------------------------------------- the registry and its API
\* addRule, clearRules, getRules, getRuleset and verify called in any order
\* on a registry that starts empty (const rules = []); the worker answers
\* getAllRuleIds from the same registry.
RegistryRules ==
  {RuleObj("errors"), RuleObj("import"), RuleObj("important"), FaultyRule}

\* the calls verify(text, ruleset) that are made on the registry
RegistryCalls ==
  {[text |-> <<StyleRule(1, 1)>>, arg |-> NoArg],
   [text |-> <<ImportStmt, Malformed>>, arg |-> <<Sev("0", 1)>>],
   [text |-> <<StyleRule(1, 1)>>, arg |-> <<Sev("length", 1)>>],
   [text |-> <<ImportStmt>>, arg |-> <<Sev("nosuch", 2), Sev("import", 1)>>],
   [text |-> <<StyleRule(1, 1), ImportStmt>>,
    arg |-> <<Sev("faulty", 1), Sev("important", 1), Sev("import", 1)>>],
   [text |-> <<StyleRule(1, 1)>>, arg |-> <<Sev("important", 1), Sev("faulty", 0)>>],
   [text |-> <<ImportStmt>>, arg |-> <<Sev("import", 1), Sev("faulty", 2)>>],
   [text |-> <<Malformed>>, arg |-> <<Sev("1", 1), Sev("length", 0)>>]}

InitRegistry ==
  /\ \E c \in RegistryCalls : text = c.text /\ arg = c.arg
  /\ rules = EmptyRegistry
  /\ lastIndex = 0
  /\ closure = [id \in RuleIds |-> 0]
  /\ outcome = NoOutcome
  /\ prev = NoOutcome
  /\ reporter = NewReporter(<<>>, <<>>, NoAllow, <<>>)
  /\ lastOp = NoOp
  /\ mappings = <<>>
  /\ call = NoCall
  /\ page = NoPage
  /\ manage = NoManage

CallOf(op, result) ==
  [op |-> op, result |-> result, rules |-> rules, mappings |-> mappings]

\* the results of verify and the mappings of getRuleset that callers hold
\* are those of the calls made since the registry last changed
ForgetOutcomes == outcome' = NoOutcome /\ prev' = NoOutcome /\ mappings' = <<>>

\* CSSLint.addRule(rule) with one of the rules in Rs
AddRule(Rs) ==
  /\ Len(rules.list) < MaxRules
  /\ \E rule \in Rs : rules' = addRule(rules, rule)
  /\ call' = CallOf("addRule", <<>>)
  /\ ForgetOutcomes
  /\ UNCHANGED <<page, manage>>
  /\ UNCHANGED <<text, arg, lastIndex, closure, reporter, lastOp>>

\* CSSLint.clearRules()
ClearRules ==
  /\ rules' = clearRules(rules)
  /\ call' = CallOf("clearRules", <<>>)
  /\ ForgetOutcomes
  /\ UNCHANGED <<page, manage>>
  /\ UNCHANGED <<text, arg, lastIndex, closure, reporter, lastOp>>

\* CSSLint.getRules()
GetRules ==
  /\ rules' = getRules(rules).rules
  /\ call' = CallOf("getRules", getRules(rules).result)
  /\ UNCHANGED <<page, manage>>
  /\ UNCHANGED <<text, arg, lastIndex, closure, outcome, prev, reporter, lastOp,
                 mappings>>

\* the worker's answer to {action: 'getAllRuleIds'}
WorkerGetAllRuleIds ==
  /\ rules' = getRules(rules).rules
  /\ call' = CallOf("getAllRuleIds", getAllRuleIds(rules))
  /\ UNCHANGED <<page, manage>>
  /\ UNCHANGED <<text, arg, lastIndex, closure, outcome, prev, reporter, lastOp,
                 mappings>>

NextRegistry ==
  \/ AddRule(RegistryRules)
  \/ ClearRules
  \/ GetRules
  \/ WorkerGetAllRuleIds
  \/ Verify

SpecRegistry == InitRegistry /\ [][NextRegistry]_vars

\* ------------------------------------------------------------- the worker
\* The worker receives {action: 'run', code, config} and answers with
\* postMessage.  One request is handled at a time; call holds the request
\* being handled ("pending") or how its handler ended: "posted" with the
\* responses it posted, "uncaught" when an exception left onmessage.
WorkerCodes ==
  {<<>>,
   <<StyleRule(1, 1)>>,
   <<ImportStmt, Malformed>>,
   <<StyleRule(1, 1), Fatal(TRUE)>>,
   <<Cmt("", ""), ImportStmt>>,
   <<Cmt("csslint", "allow: important "), StyleRule(1, 1)>>}

\* config: undefined, or a ruleset object
WorkerConfigs == {NoArg, <<Sev("important", 2)>>, <<Sev("length", 1)>>}

\* the messages that hold a placeholder of a usercss variable
PlaceholderMessages == {"Unexpected token '/*[[' at line 1", "Expected ']]*/'"}

\* !m.message.includes('/*[[') && !m.message.includes(']]*/')
NoPlaceholder(m) == m.message \notin PlaceholderMessages

\* CSSLint.verify(code, config).messages.filter(...).map(...): the rule of a
\* message is replaced by {id: m.rule.id}, which is what the model keeps of
\* a rule in a message
RunResults(report) == SelectSeq(report.messages, NoPlaceholder)

InitWorker ==
  /\ text = <<>>
  /\ arg = NoArg
  /\ rules = LoadedRegistry
  /\ lastIndex = 0
  /\ closure = [id \in RuleIds |-> 0]
  /\ outcome = NoOutcome
  /\ prev = NoOutcome
  /\ reporter = NewReporter(<<>>, <<>>, NoAllow, <<>>)
  /\ lastOp = NoOp
  /\ mappings = <<>>
  /\ call = NoCall
  /\ page = NoPage
  /\ manage = NoManage

\* a 'run' request arrives while no handler runs
WorkerReceive ==
  /\ call.op # "pending"
  /\ \E code \in WorkerCodes, config \in WorkerConfigs :
       text' = code /\ arg' = config
  /\ call' = [NoCall EXCEPT !.op = "pending"]
  /\ UNCHANGED <<page, manage>>
  /\ UNCHANGED <<rules, lastIndex, closure, outcome, prev, reporter, lastOp,
                 mappings>>

\* onmessage, case 'run': verify, filter, map, postMessage; an exception of
\* verify leaves the handler before postMessage
WorkerRun ==
  /\ call.op = "pending"
  /\ outcome' = verify(text, arg, rules, closure)
  /\ prev' = outcome
  /\ arg' = outcome'.argAfter
  /\ lastIndex' = outcome'.lastIndex
  /\ closure' = outcome'.closure
  /\ call' = IF outcome'.status = "returned"
             THEN [NoCall EXCEPT !.op = "posted",
                                 !.result = <<RunResults(outcome'.report)>>]
             ELSE [NoCall EXCEPT !.op = "uncaught"]
  /\ UNCHANGED <<page, manage>>
  /\ UNCHANGED <<text, rules, reporter, lastOp, mappings>>

NextWorker ==
  \/ WorkerReceive
  \/ WorkerRun

SpecWorker == InitWorker /\ [][NextWorker]_vars

\* ------------------------------------------- rules with per-block state
\* verify on texts with style rules and @page blocks, with the rule
\* 'shorthand' registered next to 'errors' and 'important'.
InitBlocks ==
  /\ text \in UNION {[1..n -> {NL, PageBlock, MarginRule, StyleRule(1, 1), Malformed}] :
                      n \in 0..MaxLen}
  /\ arg \in {NoArg, <<Sev("shorthand", 1)>>,
               <<Sev("shorthand", 0), Sev("important", 1)>>}
  /\ rules = addRule(RegisterAll(EmptyRegistry, <<"errors", "important">>),
                     RuleObj("shorthand"))
  /\ lastIndex = 0
  /\ closure = [id \in RuleIds \cup {"shorthand"} |-> 0]
  /\ outcome = NoOutcome
  /\ prev = NoOutcome
  /\ reporter = NewReporter(<<>>, <<>>, NoAllow, <<>>)
  /\ lastOp = NoOp
  /\ mappings = <<>>
  /\ call = NoCall
  /\ page = NoPage
  /\ manage = NoManage

SpecBlocks == InitBlocks /\ [][Verify]_vars

\* ------------------------------------------------ rules over whole blocks
\* verify on texts of @font-face blocks, @import statements, @page blocks and
\* style rules, with the rules below registered next to 'errors'
InitLint ==
  LET \* a declaration, with the type of the first part of its value
      Decl(name, value, type) == [name |-> name, value |-> value, type |-> type]
      \* the last part of a selector
      Part(elementName, modifiers) ==
        [elementName |-> elementName, modifiers |-> modifiers]
      \* n @import statements in a row
      Imports(n) == [k |-> "imports", n |-> n]
      \* a block: open and close are the types of the events at its braces,
      \* selectors the last part of each selector of a style rule,
      \* declarations its declarations in order
      Block(open, close, selectors, declarations) ==
        [k |-> "block", open |-> open, close |-> close, selectors |-> selectors,
         declarations |-> declarations]
  IN
  /\ text \in UNION {[1..n ->
        {Imports(1), Imports(MAX_IMPORT_COUNT + 1),
         Block("startpage", "endpage", <<>>, <<>>),
         Block("startfontface", "endfontface", <<>>, <<>>),
         Block("startfontface", "endfontface", <<>>,
               <<Decl("src", "url(x.woff)", "uri")>>),
         Block("startfontface", "endfontface", <<>>,
               <<Decl("src", "url('x.eot?#iefix') format('embedded-opentype')", "uri")>>),
         Block("startfontface", "endfontface", <<>>,
               <<Decl("src", "url(x.eot)", "uri"),
                 Decl("src", "url('x.eot?#iefix') format('embedded-opentype')", "uri")>>),
         Block("startrule", "endrule", <<Part("h1", <<>>)>>, <<>>),
         Block("startrule", "endrule",
               <<Part("h1", <<"pseudo">>), Part("h2", <<>>), Part("h2", <<>>)>>, <<>>),
         Block("startrule", "endrule", <<Part("", <<"attribute">>)>>, <<>>),
         Block("startrule", "endrule",
               <<Part("", <<"class">>), Part("", <<"attribute">>)>>, <<>>),
         Block("startrule", "endrule", <<Part("div", <<>>)>>,
               <<Decl("width", "100px", "length"), Decl("padding", "5px", "length")>>),
         Block("startrule", "endrule", <<Part("div", <<>>)>>,
               <<Decl("height", "50%", "percentage"), Decl("padding", "5px", "length"),
                 Decl("box-sizing", "border-box", "identifier")>>),
         Block("startrule", "endrule", <<Part("div", <<>>)>>,
               Repeat(Decl("FLOAT", "left", "identifier"), 9)
               \o <<Decl("float", "None", "identifier")>>),
         Block("startrule", "endrule", <<Part("div", <<>>)>>,
               <<Decl("float", "left", "identifier"),
                 Decl("Font-Size", "1em", "length")>>),
         Block("startrule", "endrule", <<Part("div", <<>>)>>,
               Repeat(Decl("font-size", "1em", "length"), 10))}] :
        n \in 0..MaxLine}
  /\ arg \in {NoArg,
               <<Sev("floats", 2), Sev("font-sizes", 1)>>,
               <<Sev("unique-headings", 1), Sev("import-ie-limit", 2),
                 Sev("box-model", 1)>>}
  /\ rules = RegisterAll(EmptyRegistry,
                         <<"errors", "box-model", "bulletproof-font-face", "floats",
                           "font-sizes", "import-ie-limit", "unique-headings",
                           "unqualified-attributes">>)
  /\ lastIndex = 0
  /\ closure = [id \in RuleIds \cup {rules.list[i].id : i \in 1..Len(rules.list)} |-> 0]
  /\ outcome = NoOutcome
  /\ prev = NoOutcome
  /\ reporter = NewReporter(<<>>, <<>>, NoAllow, <<>>)
  /\ lastOp = NoOp
  /\ mappings = <<>>
  /\ call = NoCall
  /\ page = NoPage
  /\ manage = NoManage

SpecLint == InitLint /\ [][Verify]_vars

\* ------------------------------------------------------- the install page
\* The page after init(): open with a port to the source tab, the source
\* code shown, liveReload = false and installed = false.  fileUrl tells
\* whether updateUrl.protocol is 'file:', in which case the live-reload
\* checkbox stays and gets its listeners.  updates holds the
\* sourceCodeChanged messages chained on liveReloadPending, each with its
\* source code and the state of its callback; posted the messages posted to
\* the port, each with the listener that posted it and the values of
\* installed and of the checkbox at that moment; editor the code that cm
\* shows; shown the update whose error the page shows (0: none).
InitInstall ==
  /\ text = <<>>
  /\ arg = NoArg
  /\ rules = LoadedRegistry
  /\ lastIndex = 0
  /\ closure = [id \in RuleIds |-> 0]
  /\ outcome = NoOutcome
  /\ prev = NoOutcome
  /\ reporter = NewReporter(<<>>, <<>>, NoAllow, <<>>)
  /\ lastOp = NoOp
  /\ mappings = <<>>
  /\ call = NoCall
  /\ \E fileUrl \in BOOLEAN :
       page = [NoPage EXCEPT !.open = TRUE, !.fileUrl = fileUrl]
  /\ manage = NoManage

\* port.onMessage: case 'sourceCodeChanged', and liveReloadUpdate(sourceCode)
\* chaining a callback on liveReloadPending
SourceCodeChanged ==
  /\ page.open
  /\ Len(page.updates) + page.alerts < MaxUpdates
  /\ \E error \in BOOLEAN, sourceCode \in 1..2 :
       page' = IF error THEN [page EXCEPT !.alerts = @ + 1]
               ELSE [page EXCEPT !.updates =
                       Append(@, [sourceCode |-> sourceCode, state |-> "chained"])]
  /\ UNCHANGED <<text, arg, rules, lastIndex, closure, outcome, prev, reporter,
                 lastOp, mappings, call, manage>>

\* a callback that runs as soon as it is queued, whatever runs before it
RunUpdateAtOnce ==
  /\ page.open
  /\ \E k \in 1..Len(page.updates) :
       /\ page.updates[k].state = "chained"
       /\ page' = [page EXCEPT !.updates[k].state = "saving",
                               !.editor = page.updates[k].sourceCode]
  /\ UNCHANGED <<text, arg, rules, lastIndex, closure, outcome, prev, reporter,
                 lastOp, mappings, call, manage>>

\* the callback of liveReloadPending.then(...) for update k: it runs when
\* the promise of the callback chained before it has settled; cm.setValue
\* and sendMessage({method: 'saveUsercss', ...})
RunUpdate ==
  /\ page.open
  /\ \E k \in 1..Len(page.updates) :
       /\ page.updates[k].state = "chained"
       /\ \A j \in 1..(k - 1) : page.updates[j].state \in {"saved", "failed"}
       /\ page' = [page EXCEPT !.updates[k].state = "saving",
                               !.editor = page.updates[k].sourceCode]
  /\ UNCHANGED <<text, arg, rules, lastIndex, closure, outcome, prev, reporter,
                 lastOp, mappings, call, manage>>

\* the saveUsercss request settles: .then(updateMeta) or .catch(showError)
SaveSettled ==
  /\ page.open
  /\ \E k \in 1..Len(page.updates), ok \in BOOLEAN :
       /\ page.updates[k].state = "saving"
       /\ page' = IF ok THEN [page EXCEPT !.updates[k].state = "saved"]
                  ELSE [page EXCEPT !.updates[k].state = "failed", !.shown = k]
  /\ UNCHANGED <<text, arg, rules, lastIndex, closure, outcome, prev, reporter,
                 lastOp, mappings, call, manage>>

\* a change listener that posts whether or not the style is installed
ToggleAlwaysPosts ==
  /\ page.open /\ page.fileUrl
  /\ Len(page.posted) < MaxPosts
  /\ page' = [page EXCEPT
                !.checked = ~page.checked,
                !.liveReload = ~page.checked,
                !.posted =
                  Append(@, [method |-> IF ~page.checked THEN "liveReloadStart"
                                        ELSE "liveReloadStop",
                             by |-> "change", installed |-> page.installed,
                             checked |-> ~page.checked])]
  /\ UNCHANGED <<text, arg, rules, lastIndex, closure, outcome, prev, reporter,
                 lastOp, mappings, call, manage>>

\* the user toggles the live-reload checkbox: the 'change' listener
ToggleLiveReload ==
  /\ page.open /\ page.fileUrl
  /\ Len(page.posted) < MaxPosts
  /\ page' = [page EXCEPT
                !.checked = ~page.checked,
                !.liveReload = ~page.checked,
                !.posted =
                  IF page.installed
                  THEN Append(@, [method |-> IF ~page.checked THEN "liveReloadStart"
                                             ELSE "liveReloadStop",
                                  by |-> "change", installed |-> page.installed,
                                  checked |-> ~page.checked])
                  ELSE @]
  /\ UNCHANGED <<text, arg, rules, lastIndex, closure, outcome, prev, reporter,
                 lastOp, mappings, call, manage>>

\* install(style): installed = style; the tab is navigated away or closed
\* unless liveReload; the 'installed' event and its listener
Install ==
  /\ page.open /\ ~page.installed
  /\ Len(page.posted) < MaxPosts
  /\ page' = [page EXCEPT
                !.installed = TRUE,
                !.open = page.liveReload,
                !.posted =
                  IF page.fileUrl /\ page.liveReload
                  THEN Append(@, [method |-> "liveReloadStart", by |-> "installed",
                                  installed |-> TRUE, checked |-> page.checked])
                  ELSE @]
  /\ UNCHANGED <<text, arg, rules, lastIndex, closure, outcome, prev, reporter,
                 lastOp, mappings, call, manage>>

SpecInstall ==
  InitInstall /\ [][SourceCodeChanged \/ RunUpdate \/ SaveSettled
                     \/ ToggleLiveReload \/ Install]_vars

\* -------------------------------------------------------- the manage page
\* types.sorter(types.parse(a), types.parse(b)) for types = tagData[key]
tagData(key, a, b) ==
  LET \* the order of a < b on the names of the styles
      rank(x) == IF x = "a" THEN 1 ELSE 2
      alpha(x, y) == IF rank(x) < rank(y) THEN -1 ELSE IF x = y THEN 0 ELSE 1
      OrZero(x) == IF x = Undefined THEN 0 ELSE x
      number(x, y) == OrZero(x) - OrZero(y)
  IN CASE key = "title" -> alpha(a.name, b.name)
       [] key = "usercss" -> number(IF a.usercssData THEN 0 ELSE 1,
                                    IF b.usercssData THEN 0 ELSE 1)
       [] key = "disabled" -> number(IF a.enabled THEN 1 ELSE 0,
                                     IF b.enabled THEN 1 ELSE 0)
       [] key = "dateInstalled" -> number(a.installDate, b.installDate)
       [] key = "dateUpdated" -> number(a.updateDate, b.updateDate)

\* a sort that takes every direction for 'asc'
sortAllAscending(styles, sortBy) ==
  LET len == Len(sortBy)
      RECURSIVE compare(_, _, _)
      compare(index, a, b) ==
        IF index > len THEN 0
        ELSE LET result == tagData(sortBy[index], a, b)
             IN IF result # 0 THEN result ELSE compare(index + 2, a, b)
      Insert(sorted, x) ==
        LET n == Len(sorted)
            After == {k \in 1..n : \A h \in k..n : compare(1, x, sorted[h]) < 0}
            p == n - Cardinality(After)
        IN SubSeq(sorted, 1, p) \o <<x>> \o SubSeq(sorted, p + 1, n)
      RECURSIVE From(_, _)
      From(sorted, i) ==
        IF i > Len(styles) THEN sorted ELSE From(Insert(sorted, styles[i]), i + 1)
  IN From(<<>>, 1)

\* sort({styles}) for the value sortBy of prefs.get('manage.newUI.sort')
\* .split(splitRegex): the comparator walks the (key, direction) pairs while
\* the result is 0, and Array.prototype.sort, which is stable, places an
\* element behind the last one that the comparator does not put after it
sort(styles, sortBy) ==
  LET len == Len(sortBy)
      RECURSIVE compare(_, _, _)
      compare(index, a, b) ==
        IF index > len THEN 0
        ELSE LET direction == IF index + 1 <= len /\ sortBy[index + 1] = "asc"
                              THEN 1 ELSE -1
                 result == tagData(sortBy[index], a, b) * direction
             IN IF result # 0 THEN result ELSE compare(index + 2, a, b)
      Insert(sorted, x) ==
        LET n == Len(sorted)
            After == {k \in 1..n : \A h \in k..n : compare(1, x, sorted[h]) < 0}
            p == n - Cardinality(After)
        IN SubSeq(sorted, 1, p) \o <<x>> \o SubSeq(sorted, p + 1, n)
      RECURSIVE From(_, _)
      From(sorted, i) ==
        IF i > Len(styles) THEN sorted ELSE From(Insert(sorted, styles[i]), i + 1)
  IN From(<<>>, 1)

\* the manage page with up to MaxStyles styles listed in any order and a sort
\* preference; a style without installDate or updateDate holds Undefined
InitManage ==
  LET Style(id, name, usercss, enabled, installDate, updateDate) ==
        [id |-> id, name |-> name, usercssData |-> usercss, enabled |-> enabled,
         installDate |-> installDate, updateDate |-> updateDate]
  IN
  /\ text = <<>>
  /\ arg = NoArg
  /\ rules = LoadedRegistry
  /\ lastIndex = 0
  /\ closure = [id \in RuleIds |-> 0]
  /\ outcome = NoOutcome
  /\ prev = NoOutcome
  /\ reporter = NewReporter(<<>>, <<>>, NoAllow, <<>>)
  /\ lastOp = NoOp
  /\ mappings = <<>>
  /\ call = NoCall
  /\ page = NoPage
  /\ \E sortBy \in {<<"title", "asc">>,
                      <<"title", "desc">>,
                      <<"dateInstalled", "desc", "title", "asc">>,
                      <<"dateUpdated", "asc", "title", "asc">>,
                      <<"usercss", "asc", "title", "desc">>,
                      <<"disabled", "desc", "usercss", "asc", "title", "asc">>},
        styles \in UNION {[1..n ->
                      {Style(1, "a", TRUE, TRUE, 2, 2),
                       Style(2, "b", FALSE, TRUE, 1, Undefined),
                       Style(3, "a", FALSE, FALSE, Undefined, 1),
                       Style(4, "b", TRUE, FALSE, 0, 2),
                       Style(5, "a", TRUE, TRUE, 2, 2)}] : n \in 0..MaxStyles} :
       manage = [sortBy |-> sortBy, given |-> styles, styles |-> styles,
                 sorted |-> FALSE]

\* update(): the entries are put in the order of sorter.sort
SortStyles ==
  /\ manage.styles # <<>>
  /\ manage' = [manage EXCEPT !.given = manage.styles,
                              !.styles = sort(manage.styles, manage.sortBy),
                              !.sorted = TRUE]
  /\ UNCHANGED <<text, arg, rules, lastIndex, closure, outcome, prev, reporter,
                 lastOp, mappings, call, page>>

SpecManage == InitManage /\ [][SortStyles]_vars

\* ------------------------------------------------- getRuleset and its callers
\* Callers register rules, take default rulesets with getRuleset, write to
\* the mappings they got, and call verify(text) without a ruleset.
PlainRules == {RuleObj("errors"), RuleObj("important")}

\* the writes a caller makes to a mapping it got from getRuleset
MappingWrites == {Sev("important", 0), Sev("extra", 2)}

InitRuleset ==
  /\ text = <<StyleRule(1, 1)>>
  /\ arg = NoArg
  /\ rules = EmptyRegistry
  /\ lastIndex = 0
  /\ closure = [id \in RuleIds |-> 0]
  /\ outcome = NoOutcome
  /\ prev = NoOutcome
  /\ reporter = NewReporter(<<>>, <<>>, NoAllow, <<>>)
  /\ lastOp = NoOp
  /\ mappings = <<>>
  /\ call = NoCall
  /\ page = NoPage
  /\ manage = NoManage

\* CSSLint.getRuleset(): the caller keeps the object
GetRuleset ==
  /\ Len(mappings) < MaxObjs
  /\ mappings' = NewObject(mappings, getRuleset(rules)).heap
  /\ call' = CallOf("getRuleset", NewObject(mappings, getRuleset(rules)).ref)
  /\ UNCHANGED <<page, manage>>
  /\ UNCHANGED <<text, arg, rules, lastIndex, closure, outcome, prev, reporter,
                 lastOp>>

\* ruleset[id] = sev on a mapping that getRuleset returned
WriteMapping ==
  /\ \E r \in 1..Len(mappings), w \in MappingWrites :
       /\ mappings' = [mappings EXCEPT ![r] = Put(@, w.id, w.sev)]
       /\ call' = CallOf("write", r)
  /\ UNCHANGED <<page, manage>>
  /\ UNCHANGED <<text, arg, rules, lastIndex, closure, outcome, prev, reporter,
                 lastOp>>

NextRuleset ==
  \/ AddRule(PlainRules)
  \/ ClearRules
  \/ GetRuleset
  \/ WriteMapping
  \/ Verify

SpecRuleset == InitRuleset /\ [][NextRuleset]_vars

\* ------------------------------------------------------ redefined rules
\* Callers register rules, some of them under an id that is taken, list the
\* rules, take the default ruleset and call verify.
RedefinedRules == {FaultyRule, QuietRule, RuleObj("import")}

RedefinedCalls ==
  {[text |-> <<ImportStmt>>, arg |-> NoArg],
   [text |-> <<ImportStmt>>, arg |-> <<Sev("faulty", 1)>>],
   [text |-> <<ImportStmt>>, arg |-> <<Sev("import", 1), Sev("faulty", 2)>>]}

InitRedefined ==
  /\ \E c \in RedefinedCalls : text = c.text /\ arg = c.arg
  /\ rules = EmptyRegistry
  /\ lastIndex = 0
  /\ closure = [id \in RuleIds |-> 0]
  /\ outcome = NoOutcome
  /\ prev = NoOutcome
  /\ reporter = NewReporter(<<>>, <<>>, NoAllow, <<>>)
  /\ lastOp = NoOp
  /\ mappings = <<>>
  /\ call = NoCall
  /\ page = NoPage
  /\ manage = NoManage

NextRedefined ==
  \/ AddRule(RedefinedRules)
  \/ GetRules
  \/ GetRuleset
  \/ Verify

SpecRedefined == InitRedefined /\ [][NextRedefined]_vars

\* ================================================================== claims
\* what the text and the caller's ruleset of the latest call contain
Called == outcome.status # "none"
Returned == outcome.status = "returned"
Positions == 1..Len(text)
Lines == 1..(Len(text) + 1)
CommentAt(j, body) == text[j].k = "cmt" /\ text[j].word # "" /\ text[j].body = body

\* the caller asked for rule id: no ruleset at all, or a non-zero severity
Requested(id) ==
  IF outcome.argBefore = NoArg THEN id \in RuleIds
  ELSE HasKey(outcome.argBefore, id) /\ Get(outcome.argBefore, id) # 0

\* item j makes rule id report a finding at the item's line
Trigger(j, id) ==
  \/ id = "important" /\ text[j].k = "rule" /\ text[j].nimp > 0
  \/ id = "import" /\ text[j].k = "import"

MessagesOf(id, line) ==
  {i \in 1..Len(outcome.report.messages) :
     /\ outcome.report.messages[i].rule = id
     /\ outcome.report.messages[i].line = line
     /\ ~outcome.report.messages[i].rollup}

\* C1: when a "csslint allow: R" comment stands on line N and rule R has a
\* finding on line N, verify returns a report without a finding of R on line
\* N, and the finding of another rule on line N is in it.
C1_AllowSuppressesOnLine ==
  Called =>
    \A c, j \in Positions :
      (/\ CommentAt(c, "allow: important ")
       /\ Trigger(j, "important") /\ Requested("important")
       /\ LineOf(text, c) = LineOf(text, j))
      => /\ Returned
         /\ MessagesOf("important", LineOf(text, j)) = {}
         /\ \A k \in Positions :
              (Trigger(k, "import") /\ Requested("import")
               /\ LineOf(text, k) = LineOf(text, j))
              => MessagesOf("import", LineOf(text, j)) # {}

\* C2: between "csslint ignore:start" and "csslint ignore:end" every finding
\* made with report() is absent from the returned report, and the findings
\* made with error() on those lines are present.
C2_IgnoreSpanSuppresses ==
  Called =>
    \A s, j, e \in Positions :
      (/\ CommentAt(s, "ignore:start ") /\ CommentAt(e, "ignore:end ")
       /\ s < j /\ j < e
       /\ \A k \in 1..e : text[k].k # "fatal")
      => /\ Returned
         /\ \A id \in {"important", "import"} :
              Trigger(j, id) /\ Requested(id)
              => MessagesOf(id, LineOf(text, j)) = {}
         /\ text[j].k = "error" => MessagesOf("errors", LineOf(text, j)) # {}

\* C3: with a severity directive "csslint important:false" in the text the
\* effective ruleset maps important to 0, the init of important is not
\* called and the returned report has no message of important.
C3_SeverityFalseDisables ==
  Called =>
    \A c \in Positions :
      CommentAt(c, "important:false ")
      => /\ Returned
         /\ Get(outcome.report.ruleset, "important") = 0
         /\ \A i \in 1..Len(outcome.inited) : outcome.inited[i] # "important"
         /\ \A i \in 1..Len(outcome.report.messages) :
              outcome.report.messages[i].rule # "important"

\* C4: in the messages of a returned report no message without rollup comes
\* after a rollup message, and the lines of the messages without rollup
\* that carry a line never decrease.
C4_SortedRollupsLast ==
  Returned =>
    \A i, j \in 1..Len(outcome.report.messages) :
      i < j =>
        LET a == outcome.report.messages[i]
            b == outcome.report.messages[j]
        IN /\ ~(a.rollup /\ ~b.rollup)
           /\ (~a.rollup /\ ~b.rollup /\ a.line # Undefined /\ b.line # Undefined)
              => a.line <= b.line

\* a run whose emission order had a rollup before a finding on an earlier
\* line than the findings before it
C4_Witness ==
  /\ Returned
  /\ outcome.emitted # outcome.report.messages
  /\ \E i, j, k \in 1..Len(outcome.emitted) :
       /\ i < j /\ j < k
       /\ ~outcome.emitted[i].rollup /\ outcome.emitted[j].rollup
       /\ ~outcome.emitted[k].rollup
       /\ outcome.emitted[k].line < outcome.emitted[i].line

\* a returned report that holds a message without line next to others
C4_WitnessNoLine ==
  /\ Returned
  /\ \E i, j \in 1..Len(outcome.report.messages) :
       /\ outcome.report.messages[i].line = Undefined
       /\ ~outcome.report.messages[i].rollup
       /\ outcome.report.messages[j].line # Undefined

\* the rule is in AllowMap at the line, or an ignore range covers the line
C5_Suppressed(line, ruleId) ==
  \/ (line \in DOMAIN reporter.allow /\ ruleId \in reporter.allow[line])
  \/ \E i \in 1..Len(reporter.ignore) :
       reporter.ignore[i][1] <= line /\ line <= reporter.ignore[i][2]

\* C5: report() appends exactly one message when the rule is not allowed on
\* the line and the line is in no ignore range, of type error iff the
\* ruleset gives the rule severity 2 and of type warning otherwise; else it
\* leaves the messages as they were.  No message made by report() whose
\* line and rule are allowed or ignored is ever among the messages.
C5_ReportFiltersAndTypes ==
  /\ lastOp.op = "report" =>
       IF C5_Suppressed(lastOp.line, lastOp.rule)
       THEN reporter.messages = lastOp.before
       ELSE /\ Len(reporter.messages) = Len(lastOp.before) + 1
            /\ SubSeq(reporter.messages, 1, Len(lastOp.before)) = lastOp.before
            /\ LET m == reporter.messages[Len(reporter.messages)]
               IN /\ m.type = IF \E i \in 1..Len(reporter.ruleset) :
                                    /\ reporter.ruleset[i].id = lastOp.rule
                                    /\ reporter.ruleset[i].sev = 2
                               THEN "error" ELSE "warning"
                  /\ m.line = lastOp.line /\ m.col = lastOp.col
                  /\ m.rule = lastOp.rule /\ ~m.rollup
  /\ \A i \in 1..Len(reporter.messages) :
       reporter.messages[i].message = "r"
       => ~C5_Suppressed(reporter.messages[i].line, reporter.messages[i].rule)

\* a report() call suppressed by allow, after one that was recorded as error
C5_Witness ==
  /\ lastOp.op = "report"
  /\ lastOp.line \in DOMAIN reporter.allow
  /\ lastOp.rule \in reporter.allow[lastOp.line]
  /\ \E i \in 1..Len(reporter.messages) :
       reporter.messages[i].message = "r" /\ reporter.messages[i].type = "error"

\* C6: error() and info() append exactly one message each, of type error
\* resp. info, whatever allow and ignore hold; so does the 'error' event of
\* the parser, which the rule 'errors' passes to error().
C6_ErrorInfoAlwaysAppend ==
  lastOp.op \in {"error", "info", "errorEvent"} =>
    /\ Len(reporter.messages) = Len(lastOp.before) + 1
    /\ SubSeq(reporter.messages, 1, Len(lastOp.before)) = lastOp.before
    /\ LET m == reporter.messages[Len(reporter.messages)]
       IN /\ m.type = IF lastOp.op = "info" THEN "info" ELSE "error"
          /\ m.line = lastOp.line /\ m.rule = lastOp.rule /\ ~m.rollup

\* a parser 'error' event on a line where 'errors' is allowed and which an
\* ignore range covers
C6_Witness ==
  /\ lastOp.op = "errorEvent"
  /\ C5_Suppressed(lastOp.line, "errors")
  /\ lastOp.line \in DOMAIN reporter.allow
  /\ "errors" \in reporter.allow[lastOp.line]
  /\ \E i \in 1..Len(reporter.ignore) :
       reporter.ignore[i][1] <= lastOp.line /\ lastOp.line <= reporter.ignore[i][2]
  /\ reporter.messages[Len(reporter.messages)].type = "error"

\* C7: verify leaves the caller's ruleset object with the keys and values it
\* had before the call.
C7_CallerRulesetUntouched ==
  Called /\ outcome.argBefore # NoArg => outcome.argAfter = outcome.argBefore

\* C8: in every verify run the effective ruleset maps errors to 2 and the
\* registered rule 'errors' is initialised, whatever the caller's ruleset
\* and the directives of the text say.
C8_ErrorsAlwaysForced ==
  Called =>
    /\ Returned
    /\ Get(outcome.report.ruleset, "errors") = 2
    /\ \E i \in 1..Len(outcome.inited) : outcome.inited[i] = "errors"

\* C9: verify returns a Report, or it propagates an exception that the init
\* of a rule threw; no other step throws.
C9_ThrowsOnlyFromRuleInit ==
  outcome.status = "threw" => outcome.site = "rule.init"

\* C10: a second verify call with the same text and the same ruleset object
\* ends the way the first did and yields the same messages, stats, ruleset,
\* allow and ignore.
C10_SecondRunIdentical ==
  prev.status # "none" =>
    /\ outcome.status = prev.status
    /\ outcome.site = prev.site
    /\ outcome.report = prev.report
    /\ outcome.inited = prev.inited

\* two returned runs, the first of which counted declarations in a rule's
\* closure and wrote 'errors' into the caller's ruleset object
C10_Witness ==
  /\ prev.status = "returned" /\ outcome.status = "returned"
  /\ prev.report.messages # <<>>
  /\ prev.argAfter # prev.argBefore
  /\ prev.closure["important"] > 0
  /\ "important" \in DOMAIN outcome.report.stats

\* ------------------------------------------------------------------- C11
\* the events of the latest run that the parser emitted before it threw
Delivered ==
  LET evs == Events(text)
      t == ThrowAt(evs)
  IN IF t = 0 THEN evs ELSE SubSeq(evs, 1, t - 1)

\* the number of property events of the run with important = true
CountImportant ==
  Cardinality({i \in 1..Len(Delivered) :
                 Delivered[i].type = "property" /\ Delivered[i].important})

ParsedToEnd == ThrowAt(Events(text)) = 0

InitedTimes(id) == Cardinality({i \in 1..Len(outcome.inited) : outcome.inited[i] = id})

RollupsOf(id) ==
  {i \in 1..Len(outcome.report.messages) :
     /\ outcome.report.messages[i].rollup
     /\ outcome.report.messages[i].rule = id
     /\ outcome.report.messages[i].type = "warning"}

RollupsLast ==
  \A i \in RollupsOf("important"), j \in 1..Len(outcome.report.messages) :
    ~outcome.report.messages[j].rollup => j < i

FatalPos ==
  LET S == {j \in Positions : text[j].k = "fatal"}
  IN IF S = {} THEN 0 ELSE CHOOSE j \in S : \A h \in S : j <= h

\* item j makes a rule whose init ran record a message
Records(j) ==
  \/ \E id \in {"important", "import"} : Trigger(j, id) /\ InitedTimes(id) > 0
  \/ text[j].k = "error" /\ InitedTimes("errors") > 0

FatalMessage(m) == m.message = "Fatal error, cannot continue"

\* C12: when parsing throws, verify returns a Report whose messages are the
\* ones recorded for the items before the failure point plus exactly one
\* message of type error that carries the line and col of the exception
\* when it has them; nothing behind the failure point reaches a listener:
\* no message of a later item, no rollup, no stat.
C12_ParseFailureKeepsFindings ==
  Called /\ outcome.status # "threw" /\ FatalPos # 0 =>
    /\ Returned
    /\ Len(outcome.report.messages) = Len(outcome.emitted)
    /\ LET n == Len(outcome.emitted)
           last == outcome.emitted[n]
       IN /\ n >= 1
          /\ FatalMessage(last) /\ last.type = "error" /\ ~last.rollup
          /\ last.line = (IF text[FatalPos].hasLine THEN LineOf(text, FatalPos)
                          ELSE Undefined)
          /\ last.col = (IF text[FatalPos].hasLine THEN ColOf(text, FatalPos)
                         ELSE Undefined)
          /\ \A i \in 1..(n - 1) :
               /\ ~FatalMessage(outcome.emitted[i])
               /\ ~outcome.emitted[i].rollup
               /\ \E j \in 1..(FatalPos - 1) :
                    /\ Records(j)
                    /\ LineOf(text, j) = outcome.emitted[i].line
                    /\ ColOf(text, j) = outcome.emitted[i].col
          /\ \A j \in 1..(FatalPos - 1) :
               Records(j) => \E i \in 1..(n - 1) :
                 /\ LineOf(text, j) = outcome.emitted[i].line
                 /\ ColOf(text, j) = outcome.emitted[i].col
          /\ \A i \in 1..n : \E h \in 1..n :
               outcome.report.messages[h] = outcome.emitted[i]
    /\ DOMAIN outcome.report.stats = {}

\* a parse that threw an exception with line and col after a finding was
\* recorded and before an item that would have made another one
C12_Witness ==
  /\ Returned /\ FatalPos # 0 /\ text[FatalPos].hasLine
  /\ Len(outcome.emitted) >= 2
  /\ outcome.emitted[Len(outcome.emitted)].line = LineOf(text, FatalPos)
  /\ \E j \in Positions : j > FatalPos /\ Records(j)
  /\ InitedTimes("important") > 0

\* ------------------------------------------------------------------- C13
RegisteredIds == {rules.list[i].id : i \in 1..Len(rules.list)}

\* the ruleset of the latest call before the inits: the caller's, or the
\* default one, with errors forced to 2 (the texts of RegistryCalls hold no
\* directive)
Effective ==
  ForceErrors(IF outcome.argBefore = NoArg THEN getRuleset(rules)
              ELSE outcome.argBefore)

\* key k of the effective ruleset is the id of an enabled, registered rule
EnabledRule(k) ==
  /\ k \in RegisteredIds
  /\ Get(Effective, k) # 0

\* the first key, in key order, of an enabled registered rule whose init
\* throws (0: none)
FirstThrowing ==
  LET K == Keys(Effective)
      S == {p \in 1..Len(K) : EnabledRule(K[p]) /\ InitThrows(rules.byId[K[p]])}
  IN IF S = {} THEN 0 ELSE CHOOSE p \in S : \A q \in S : p <= q

\* C13: when the init of an enabled, registered rule is called and throws,
\* verify ends with that exception: no Report, no message, no init for the
\* keys that follow in key order, no parser event.
C13_InitFaultPropagates ==
  Called /\ FirstThrowing # 0 /\ "faulty" \in {outcome.inited[i] : i \in 1..Len(outcome.inited)} =>
    /\ outcome.status = "threw"
    /\ outcome.site = "rule.init"
    /\ outcome.report = NoReport
    /\ outcome.emitted = <<>>
    /\ outcome.initKeys[Len(outcome.initKeys)] = Keys(Effective)[FirstThrowing]
    /\ \A q \in (FirstThrowing + 1)..Len(Keys(Effective)) :
         \A i \in 1..Len(outcome.initKeys) :
           outcome.initKeys[i] # Keys(Effective)[q]

\* a run that a throwing init ended after the init of an earlier key ran and
\* before the one of a later key, on a text with a finding
C13_Witness ==
  /\ outcome.status = "threw" /\ outcome.site = "rule.init"
  /\ FirstThrowing # 0
  /\ \E q \in (FirstThrowing + 1)..Len(Keys(Effective)) :
       EnabledRule(Keys(Effective)[q])
  /\ text # <<>>

\* a second witness: an init ran before the one that threw
C13_WitnessEarlier ==
  /\ outcome.status = "threw" /\ outcome.site = "rule.init"
  /\ Len(outcome.inited) >= 2

\* ------------------------------------------------------------------- C14
\* C14: for every key of the caller's ruleset that is not the id of a
\* registered rule, verify calls no init on behalf of the key and the
\* lookup of the key does not make verify throw.
C14_UnknownKeysSkipped ==
  Called /\ outcome.argBefore # NoArg =>
    \A i \in 1..Len(outcome.argBefore) :
      outcome.argBefore[i].id \notin RegisteredIds =>
        /\ \A h \in 1..Len(outcome.initKeys) :
             outcome.initKeys[h] # outcome.argBefore[i].id
        /\ outcome.site # "rules[id].init"

\* ------------------------------------------------------------------- C15
\* C15: in a run that returns a Report, the init of every registered rule
\* with a non-zero effective severity was called exactly once; the init of
\* a registered rule with severity 0 or without a key was not called, and
\* the report holds no message and no stat of such a rule.
C15_InitOncePerEnabledRule ==
  Returned =>
    \A id \in RegisteredIds :
      IF HasKey(Effective, id) /\ Get(Effective, id) # 0
      THEN InitedTimes(id) = 1
      ELSE /\ InitedTimes(id) = 0
           /\ \A i \in 1..Len(outcome.report.messages) :
                outcome.report.messages[i].rule # id
           /\ id \notin DOMAIN outcome.report.stats

\* ------------------------------------------------------------------- C19
\* the ids of S in ascending order
Ascending(S) == LET In(id) == id \in S IN SelectSeq(IdOrder, In)

DistinctIds(list) == Cardinality({list[i].id : i \in 1..Len(list)}) = Len(list)

\* C19: with rules of distinct ids registered, getRules() and the worker's
\* getAllRuleIds return the rules resp. the ids strictly ascending by id,
\* the same sequence for every order of registration of the same rules, and
\* the listing leaves the registry as it was.
C19_ListingAscending ==
  call.op \in {"getRules", "getAllRuleIds"} /\ DistinctIds(call.rules.list) =>
    /\ rules = call.rules
    /\ LET ids == IF call.op = "getRules" THEN IdsOf(call.result) ELSE call.result
       IN /\ ids = Ascending(RegisteredIds)
          /\ \A i, j \in 1..Len(ids) : i < j => IdRank(ids[i]) < IdRank(ids[j])
    /\ call.op = "getRules" =>
         \A i \in 1..Len(call.result) :
           \E j \in 1..Len(rules.list) : rules.list[j] = call.result[i]

\* the worker lists three rules that were registered in another order
C19_Witness ==
  /\ call.op = "getAllRuleIds"
  /\ Len(call.result) = 3
  /\ DistinctIds(rules.list)
  /\ IdsOf(rules.list) # call.result

\* ------------------------------------------------------------------- C20
IsDefaultFor(mapping, ids) ==
  /\ {mapping[i].id : i \in 1..Len(mapping)} = ids
  /\ Len(mapping) = Cardinality(ids)
  /\ \A i \in 1..Len(mapping) : mapping[i].sev = 1

\* C20: getRuleset() returns an object that no caller held before, whose
\* keys are the ids of the registered rules, each with the value 1; a write
\* to a mapping changes no other mapping and not the registry, and
\* verify(text) without ruleset still works with every registered rule at 1
\* (errors at 2).
C20_FreshDefaultRuleset ==
  /\ call.op = "getRuleset" =>
       /\ call.result \notin 1..Len(call.mappings)
       /\ call.result \in 1..Len(mappings)
       /\ IsDefaultFor(mappings[call.result], RegisteredIds)
       /\ \A q \in 1..Len(call.mappings) : mappings[q] = call.mappings[q]
       /\ rules = call.rules
  /\ call.op = "write" =>
       /\ rules = call.rules
       /\ Len(mappings) = Len(call.mappings)
       /\ \A q \in 1..Len(mappings) :
            q # call.result => mappings[q] = call.mappings[q]
  /\ (Returned /\ outcome.argBefore = NoArg) =>
       /\ {outcome.report.ruleset[i].id : i \in 1..Len(outcome.report.ruleset)}
            = RegisteredIds \cup {"errors"}
       /\ \A i \in 1..Len(outcome.report.ruleset) :
            outcome.report.ruleset[i].sev =
              (IF outcome.report.ruleset[i].id = "errors" THEN 2 ELSE 1)

\* a second getRuleset after the first mapping was written to, and a
\* verify(text) without ruleset behind it
C20_Witness ==
  /\ call.op = "getRuleset" /\ call.result = 2
  /\ mappings[1] # mappings[2]
  /\ Get(mappings[1], "important") = 0
  /\ Returned

\* ------------------------------------------------------------------- C16
\* the directive comments of the text, in any letter case
DirectiveAt(j) == text[j].k = "cmt" /\ ToLowerCase(text[j].word) = "csslint"

\* C16: a severity directive "important:false" sets important to the
\* severity mapped from "false", 0, in the ruleset of the returned report;
\* every severity of that ruleset is in {0,1,2} and it has no key besides
\* those of the ruleset before the directives and the ids the directives
\* list.
C16_SeverityDirectiveMapping ==
  Called =>
    \A c \in Positions :
      DirectiveAt(c) /\ ToLowerCase(text[c].body) = "important:false "
      => /\ Returned
         /\ HasKey(outcome.report.ruleset, "important")
         /\ Get(outcome.report.ruleset, "important") = MappedSeverity("false")
         /\ \A i \in 1..Len(outcome.report.ruleset) :
              /\ outcome.report.ruleset[i].sev \in {0, 1, 2}
              /\ \/ HasKey(Effective, outcome.report.ruleset[i].id)
                 \/ outcome.report.ruleset[i].id \in {"important", "errors"}

\* ------------------------------------------------------------------- C17
\* the text with the keyword of every directive comment in lower case
LowerCased(t) ==
  [j \in 1..Len(t) |-> [t[j] EXCEPT !.word = ToLowerCase(@)]]

\* C17: a text with a directive comment in another letter case has the
\* effect of the text with the directive in lower case: verify ends the
\* same way with the same report, wherever the comment stands.
C17_CaseInsensitiveComplete ==
  (Called /\ \E c \in Positions : DirectiveAt(c) /\ text[c].word # "csslint")
  => LET low == verify(LowerCased(text), outcome.argBefore, rules, prev.closure)
     IN /\ outcome.status = low.status
        /\ outcome.site = low.site
        /\ outcome.report = low.report

\* ------------------------------------------------------------------- C18
\* the value of the line counter of the extractor at the comment at c
LineCounterAt(c) == Cardinality({j \in 1..(c - 1) : DirectiveAt(j)})

\* C18: an "allow: important" directive records exactly {important} in the
\* allow map of the returned report, at the key of the line counter plus
\* one, and the allow map has no key that no allow directive recorded.
C18_AllowRecordsListedIds ==
  Called =>
    /\ \A c \in Positions :
         DirectiveAt(c) /\ ToLowerCase(text[c].body) = "allow: important "
         => /\ Returned
            /\ LineCounterAt(c) + 1 \in DOMAIN outcome.report.allow
            /\ outcome.report.allow[LineCounterAt(c) + 1] = {"important"}
    /\ Returned =>
         \A key \in DOMAIN outcome.report.allow :
           \E c \in Positions :
             /\ DirectiveAt(c) /\ ToLowerCase(text[c].body) = "allow: important "
             /\ key = LineCounterAt(c) + 1

\* ------------------------------------------------------------------- C21
\* the positions of the registrations under id, and the latest of them
RegistrationsOf(id) == {i \in 1..Len(rules.list) : rules.list[i].id = id}
LastRegistered(id) ==
  rules.list[CHOOSE i \in RegistrationsOf(id) :
               \A j \in RegistrationsOf(id) : j <= i]
RedefinedIds == {id \in RegisteredIds : Cardinality(RegistrationsOf(id)) >= 2}

\* the part of C21 about lookup, verify and getRuleset
LatestDefinitionWins(id) ==
  /\ Lookup(rules, id) = [kind |-> "rule", rule |-> LastRegistered(id)]
  /\ Called =>
       \A i \in 1..Len(outcome.inited) :
         outcome.inited[i] = id => outcome.initImpls[i] = LastRegistered(id).impl
  /\ call.op = "getRuleset" =>
       Cardinality({i \in 1..Len(mappings[call.result]) :
                      mappings[call.result][i].id = id}) = 1

\* C21 as stated: for an id registered more than once, lookup resolves to
\* the rule registered last, verify calls the init of that rule only,
\* getRuleset() has one key for the id, and getRules() lists one rule of
\* that id.
C21_RedefinitionListedOnce ==
  \A id \in RedefinedIds :
    /\ LatestDefinitionWins(id)
    /\ call.op = "getRules" =>
         Cardinality({i \in 1..Len(call.result) : call.result[i].id = id}) = 1

\* C21 amended: as above, but getRules() lists every registration of the
\* id, the earlier rule objects included.
C21_RedefinitionListedPerRegistration ==
  \A id \in RedefinedIds :
    /\ LatestDefinitionWins(id)
    /\ call.op = "getRules" =>
         /\ Cardinality({i \in 1..Len(call.result) : call.result[i].id = id})
              = Cardinality(RegistrationsOf(id))
         /\ \A j \in RegistrationsOf(id) :
              \E i \in 1..Len(call.result) : call.result[i] = rules.list[j]

\* an id registered with a throwing init and then with a quiet one, a
\* verify run that called the init for the id, and a listing behind it
C21_Witness ==
  /\ call.op = "getRules"
  /\ \E i, j \in 1..Len(rules.list) :
       i < j /\ rules.list[i] = FaultyRule /\ rules.list[j] = QuietRule
  /\ LastRegistered("faulty") = QuietRule
  /\ Returned
  /\ \E i \in 1..Len(outcome.inited) : outcome.inited[i] = "faulty"

\* ------------------------------------------------------------------- C22
\* C22: while no rule has been registered since the last clearRules(),
\* getRules() and the worker's listing return the empty sequence,
\* getRuleset() the empty mapping, no id registered before resolves on
\* lookup, and a verify call initialises no rule.
C22_ClearedRegistryEmpty ==
  rules.list = <<>> =>
    /\ call.op \in {"getRules", "getAllRuleIds"} => call.result = <<>>
    /\ getRuleset(rules) = <<>>
    /\ \A id \in DOMAIN rules.byId : Lookup(rules, id).kind = "undefined"
    /\ Called => outcome.inited = <<>>

\* ------------------------------------------------------------------- C23
\* the rollup messages of msgs, and its messages without rollup on a line,
\* in the order of msgs
RollupsIn(msgs) == LET R(m) == m.rollup IN SelectSeq(msgs, R)
OnLineIn(msgs, line) ==
  LET L(m) == ~m.rollup /\ m.line = line IN SelectSeq(msgs, L)

\* C23: in a returned report the messages without rollup that share a line
\* stand in the order of their emission, and so do the rollup messages.
C23_SortStable ==
  Returned =>
    /\ RollupsIn(outcome.report.messages) = RollupsIn(outcome.emitted)
    /\ \A i \in 1..Len(outcome.emitted) :
         OnLineIn(outcome.report.messages, outcome.emitted[i].line)
           = OnLineIn(outcome.emitted, outcome.emitted[i].line)

\* a run that emitted two different findings on one line, after a rollup
\* that the sort had to move behind them, and two different rollups
C23_Witness ==
  /\ Returned
  /\ \E k, i, j \in 1..Len(outcome.emitted) :
       /\ k < i /\ i < j
       /\ outcome.emitted[k].rollup
       /\ ~outcome.emitted[i].rollup /\ ~outcome.emitted[j].rollup
       /\ outcome.emitted[i].line = outcome.emitted[j].line
       /\ outcome.emitted[i] # outcome.emitted[j]
  /\ Len(RollupsIn(outcome.emitted)) >= 2
  /\ RollupsIn(outcome.emitted)[1] # RollupsIn(outcome.emitted)[2]

\* ------------------------------------------------------------------- C24
\* C24: the ruleset of a returned report is an object of its own, never the
\* object that the caller passed to verify, so that a write to one of them
\* does not show in the other.
C24_ReportOwnsRuleset ==
  Returned => ~outcome.sharesArg

\* ------------------------------------------------------------------- C25
\* the messages that the latest Reporter call appended
Appended == SubSeq(reporter.messages, Len(lastOp.before) + 1, Len(reporter.messages))

\* C25: every message of a Reporter with rollup carries neither line nor
\* col; a call of rollupError or rollupWarn appends exactly one message,
\* with rollup, of the rule of the call, whatever allow and ignore hold; the
\* other calls append messages without rollup only.
C25_RollupMessages ==
  /\ \A i \in 1..Len(reporter.messages) :
       reporter.messages[i].rollup =>
         /\ reporter.messages[i].line = Undefined
         /\ reporter.messages[i].col = Undefined
  /\ lastOp.op # "none" =>
       SubSeq(reporter.messages, 1, Len(lastOp.before)) = lastOp.before
  /\ lastOp.op \in {"rollupError", "rollupWarn"} =>
       /\ Len(Appended) = 1
       /\ Appended[1].rollup
       /\ Appended[1].rule = lastOp.rule
       /\ Appended[1].type = (IF lastOp.op = "rollupError" THEN "error" ELSE "warning")
  /\ lastOp.op \in {"error", "report", "info", "errorEvent", "stat"} =>
       \A i \in 1..Len(Appended) : ~Appended[i].rollup

\* a rollupWarn on a Reporter whose ignore ranges cover every line and whose
\* allow map names the rule, after a finding was recorded
C25_Witness ==
  /\ lastOp.op = "rollupWarn"
  /\ lastOp.before # <<>>
  /\ ~lastOp.before[1].rollup
  /\ \E i \in 1..Len(reporter.ignore) :
       reporter.ignore[i][1] <= 0 /\ reporter.ignore[i][2] >= 0
  /\ Len(reporter.messages) = Len(lastOp.before) + 1

\* ------------------------------------------------------------------- C26
\* C26: when the handler of a 'run' request has ended, the worker has posted
\* exactly one response for the request, also when verify threw.
C26_RunAlwaysAnswered ==
  call.op \in {"posted", "uncaught"} => Len(call.result) = 1

\* ------------------------------------------------------------------- C27
BodyAt(c, body) == DirectiveAt(c) /\ ToLowerCase(text[c].body) = body

\* C27: the line counter of the extractor is the number of directive
\* comments matched before: an allow directive that is match k is recorded
\* at key k + 1 of the allow map, and an ignore:start that is match k
\* followed by an ignore:end that is match m gives an ignore range that
\* starts at k and ends at m.
C27_LineCounterPerDirective ==
  Called =>
    /\ \A c \in Positions :
         BodyAt(c, "allow: important ")
         => Returned /\ LineCounterAt(c) + 1 \in DOMAIN outcome.report.allow
    /\ \A c, e \in Positions :
         (/\ c < e /\ BodyAt(c, "ignore:start ") /\ BodyAt(e, "ignore:end ")
          /\ \A j \in 1..(e - 1) :
               ~BodyAt(j, "ignore:end ") /\ (j < c => ~BodyAt(j, "ignore:start ")))
         => /\ Returned
            /\ \E i \in 1..Len(outcome.report.ignore) :
                 outcome.report.ignore[i] = <<LineCounterAt(c), LineCounterAt(e)>>

\* ------------------------------------------------------------------- C28
\* the ignore ranges that C28 describes for the directives from item j on,
\* with k the line counter, open the start of the open span (Undefined:
\* none) and acc the pairs appended so far
RECURSIVE RangesFrom(_, _, _, _)
RangesFrom(j, k, open, acc) ==
  IF j > Len(text)
  THEN IF open # Undefined THEN Append(acc, <<open, k>>) ELSE acc
  ELSE IF ~DirectiveAt(j) THEN RangesFrom(j + 1, k, open, acc)
  ELSE IF BodyAt(j, "ignore:start ")
  THEN RangesFrom(j + 1, k + 1, IF open = Undefined THEN k ELSE open, acc)
  ELSE IF BodyAt(j, "ignore:end ") /\ open # Undefined
  THEN RangesFrom(j + 1, k + 1, Undefined, Append(acc, <<open, k>>))
  ELSE RangesFrom(j + 1, k + 1, open, acc)

\* C28: for a text with ignore directives verify returns a report whose
\* ignore ranges are the pairs built from the directives in order: a span
\* opens at the first ignore:start while none is open, the next ignore:end
\* closes it, and a span left open is closed at the end of the scan.
C28_IgnoreRangesBuilt ==
  (Called /\ \E c \in Positions :
               BodyAt(c, "ignore:start ") \/ BodyAt(c, "ignore:end "))
  => /\ Returned
     /\ outcome.report.ignore = RangesFrom(1, 0, Undefined, <<>>)

\* ------------------------------------------------------------------- C30
\* the offset of the first line break, or the length of the text
FirstBreak ==
  IF IndexOfNewline(text, 0) = -1 THEN Length(text) ELSE IndexOfNewline(text, 0)

AfterFirstBreak(c) == Offset(c) > FirstBreak

\* what the extractor does on the text from the cursor of the pre-scan on
Extraction ==
  applyEmbeddedOverrides(text, PreScan(text), Effective, NoAllow, <<>>)

\* C30: when every directive comment of the text starts after the first
\* line break, verify returns with the ruleset, allow map and ignore ranges
\* that it had before the extraction, and the extractor, when it runs,
\* ends with a line counter that counts every directive it matched; the
\* extractor reaches the directive handling, where it throws, only for a
\* directive that starts at or before the first line break.
C30_DirectivesAfterFirstBreakSkipped ==
  Called =>
    /\ (\A c \in Positions : DirectiveAt(c) => AfterFirstBreak(c))
       => /\ Returned
          /\ outcome.report.ruleset = Effective
          /\ outcome.report.allow = NoAllow
          /\ outcome.report.ignore = <<>>
          /\ PreScan(text) >= 0 =>
               /\ ~Extraction.threw
               /\ Extraction.lineno =
                    Cardinality({c \in Positions :
                                   DirectiveAt(c) /\ Offset(c) >= PreScan(text)})
    /\ (outcome.status = "threw" /\ outcome.site = "applyEmbeddedOverrides")
       => \E c \in Positions : DirectiveAt(c) /\ ~AfterFirstBreak(c)

\* a returned run on a text with an allow directive behind the first line
\* break, which the extractor matched and skipped
C30_Witness ==
  /\ Returned
  /\ PreScan(text) >= 0
  /\ \E c \in Positions :
       /\ BodyAt(c, "allow: important ") /\ AfterFirstBreak(c)
       /\ Offset(c) >= PreScan(text)
  /\ Extraction.lineno >= 1

\* ------------------------------------------------------------------- C29
FatalIn(msgs) ==
  \E i \in 1..Len(msgs) : msgs[i].message = "Fatal error, cannot continue"

\* C29: on a text that the parser parses to its end, with every property
\* inside a block, no listener throws: verify returns a report without a
\* 'Fatal error, cannot continue' message, and the listeners of the end of
\* the stylesheet have run (the stat of 'important' is recorded when the
\* rule is enabled).
C29_ListenersNeverThrow ==
  (Called /\ ParsedToEnd) =>
    /\ Returned
    /\ ~FatalIn(outcome.report.messages)
    /\ InitedTimes("important") > 0 => "important" \in DOMAIN outcome.report.stats

\* --------------------------------------------------- rules over whole blocks
\* the rule's init ran once in a run that returned a report
LintRan(id) == Returned /\ InitedTimes(id) = 1

\* the findings of a rule in the report, rollups apart
FindingsOf(id) ==
  {i \in 1..Len(outcome.report.messages) :
     /\ outcome.report.messages[i].rule = id
     /\ ~outcome.report.messages[i].rollup}

\* the blocks of the text that open with the event of that type
BlocksWith(open) ==
  {j \in Positions : text[j].k = "block" /\ text[j].open = open}

\* the declarations of the text, as <<block, index>>, that satisfy Q
DeclsWhere(Q(_)) ==
  UNION {{<<j, i>> : i \in {i \in 1..Len(text[j].declarations) :
                              Q(text[j].declarations[i])}} :
         j \in {j \in Positions : text[j].k = "block"}}

\* the selectors of the style rules of the text, as <<block, index>>, whose
\* last part satisfies Q
SelectorsWhere(Q(_)) ==
  UNION {{<<j, i>> : i \in {i \in 1..Len(text[j].selectors) :
                              Q(text[j].selectors[i])}} :
         j \in BlocksWith("startrule")}

\* ------------------------------------------------------------------- C31
\* the block holds a src declaration that does not match the bulletproof
\* pattern and no src declaration behind the first such one matches it
Unbulletproof(t) ==
  LET D == t.declarations
      Srcs == {i \in 1..Len(D) : ToLowerCase(D[i].name) = "src"}
      Bad == {i \in Srcs : D[i].value \notin BulletproofValues}
  IN /\ Bad # {}
     /\ ~\E i \in Srcs : /\ D[i].value \in BulletproofValues
                         /\ \A b \in Bad : b >= i => \E b2 \in Bad : b2 < i

\* C31: whether 'bulletproof-font-face' reports a @font-face block depends on
\* the declarations between its own startfontface and endfontface only: the
\* report holds one finding of the rule for each block that holds a src
\* declaration not matching the bulletproof pattern without a matching one
\* behind the first such declaration, and none for any other block, whatever
\* the earlier @font-face blocks of the run declared.
C31_FontFaceBlocksIndependent ==
  LintRan("bulletproof-font-face") =>
    Cardinality(FindingsOf("bulletproof-font-face"))
      = Cardinality({j \in BlocksWith("startfontface") : Unbulletproof(text[j])})

\* ------------------------------------------------------------------- C32
\* the import events of the run
ImportEvents ==
  Cardinality({i \in 1..Len(Delivered) : Delivered[i].type = "import"})

ErrorRollupsOf(id) ==
  {i \in 1..Len(outcome.report.messages) :
     /\ outcome.report.messages[i].rollup
     /\ outcome.report.messages[i].rule = id
     /\ outcome.report.messages[i].type = "error"}

\* C32: a run of 'import-ie-limit' that reaches the end of the stylesheet has
\* exactly one rollup error of the rule when more than 31 import events
\* occurred, whatever other events (such as startpage) occurred between
\* them or behind them, and none otherwise.
C32_ImportLimitRollup ==
  LintRan("import-ie-limit") /\ ParsedToEnd =>
    Cardinality(ErrorRollupsOf("import-ie-limit"))
      = IF ImportEvents > MAX_IMPORT_COUNT THEN 1 ELSE 0

\* ------------------------------------------------------------------- C33
\* the selectors whose last part is the heading h without a pseudo modifier
HeadingUses(h) ==
  LET Q(part) == /\ part.elementName = h
                 /\ \A k \in 1..Len(part.modifiers) : part.modifiers[k] # "pseudo"
  IN SelectorsWhere(Q)

\* C33: 'unique-headings' counts every selector whose last part is h1..h6
\* without a pseudo modifier, independently of the other selectors of the
\* same rule, and reports it when the count of its heading then exceeds 1:
\* the report holds one finding for every such selector but the first of
\* each heading, and exactly one rollup warning when some heading was
\* counted more than once, none otherwise.
C33_HeadingsCountedPerSelector ==
  LintRan("unique-headings") /\ ParsedToEnd =>
    /\ Cardinality(FindingsOf("unique-headings"))
         = Cardinality(UNION {HeadingUses(h) : h \in Headings})
           - Cardinality({h \in Headings : HeadingUses(h) # {}})
    /\ Cardinality(RollupsOf("unique-headings"))
         = IF \E h \in Headings : Cardinality(HeadingUses(h)) > 1 THEN 1 ELSE 0

\* ------------------------------------------------------------------- C34
\* the last part has an attribute modifier, no class or id modifier and no
\* element name (or '*')
Unqualified(part) ==
  /\ \E k \in 1..Len(part.modifiers) : part.modifiers[k] = "attribute"
  /\ \A k \in 1..Len(part.modifiers) : part.modifiers[k] \notin {"class", "id"}
  /\ part.elementName \in {"", "*"}

\* C34: 'unqualified-attributes' judges every selector of a rule on its own:
\* the selectors with a finding of the rule at their last part are exactly
\* those whose last part has an attribute modifier, no class or id modifier
\* and no element name, whatever modifiers the other selectors of the same
\* rule carry.
C34_SelectorsJudgedAlone ==
  LintRan("unqualified-attributes") =>
    \A j \in BlocksWith("startrule") : \A i \in 1..Len(text[j].selectors) :
      Unqualified(text[j].selectors[i])
        <=> \E m \in FindingsOf("unqualified-attributes") :
              /\ outcome.report.messages[m].line = LineOf(text, j)
              /\ outcome.report.messages[m].col = ColOf(text, j) + i

\* ------------------------------------------------------------------- C35
\* the block declares size with a length or percentage value and a non-zero
\* padding, and no box-sizing
BrokenBox(t, size) ==
  LET D == t.declarations
      Has(Q(_)) == \E i \in 1..Len(D) : Q(D[i])
      Sized(d) == ToLowerCase(d.name) = size /\ d.type \in {"length", "percentage"}
      Padded(d) == ToLowerCase(d.name) = "padding" /\ d.value \notin {"0", "0px"}
      BoxSizing(d) == ToLowerCase(d.name) = "box-sizing"
  IN Has(Sized) /\ Has(Padded) /\ ~Has(BoxSizing)

\* C35: 'box-model' reports, at the end of a block, one finding for each of
\* width and height that the block declares with a length or percentage
\* value next to a non-zero padding or border when the block declares no
\* box-sizing, and nothing for a block that declares box-sizing.
C35_BoxModelReported ==
  LintRan("box-model") =>
    Cardinality(FindingsOf("box-model"))
      = Cardinality({p \in {j \in Positions : text[j].k = "block"}
                            \X {"width", "height"} :
                       BrokenBox(text[p[1]], p[2])})

\* ------------------------------------------------------------------- C36
\* the declarations that 'floats' counts and those that 'font-sizes' counts
CountedFloats ==
  LET Q(d) == ToLowerCase(d.name) = "float" /\ ToLowerCase(d.value) # "none"
  IN Cardinality(DeclsWhere(Q))

CountedFontSizes ==
  LET Q(d) == d.name = "font-size"
  IN Cardinality(DeclsWhere(Q))

StatOf(name) ==
  IF name \in DOMAIN outcome.report.stats THEN outcome.report.stats[name]
  ELSE Undefined

C36_WitnessFontSizes ==
  /\ LintRan("font-sizes") /\ ParsedToEnd
  /\ CountedFontSizes = 10 /\ StatOf("font-sizes") = 10
  /\ Cardinality(RollupsOf("font-sizes")) = 1

\* ------------------------------------------------------------------- C37
\* the number of times m stands in msgs
TimesIn(msgs, m) == Cardinality({i \in 1..Len(msgs) : msgs[i] = m})

\* C37: the message list of the Reporter only grows: an operation of the
\* Reporter leaves the messages recorded before it in place and unaltered
\* and appends at most one; the messages of the Report that verify returns
\* are the messages appended during the run, each as many times as it was
\* appended, so the final sort neither drops, duplicates nor modifies one.
C37_MessagesOnlyGrow ==
  /\ lastOp.op # "none" =>
       /\ Len(lastOp.before) <= Len(reporter.messages)
       /\ Len(reporter.messages) <= Len(lastOp.before) + 1
       /\ SubSeq(reporter.messages, 1, Len(lastOp.before)) = lastOp.before
  /\ Returned =>
       /\ Len(outcome.report.messages) = Len(reporter.messages)
       /\ \A i \in 1..Len(reporter.messages) :
            TimesIn(outcome.report.messages, reporter.messages[i])
              = TimesIn(reporter.messages, reporter.messages[i])

\* a Report assembled from two equal messages, both of which it holds, after
\* an operation that appended the second to the first
C37_Witness ==
  /\ Returned
  /\ Len(reporter.messages) = 2
  /\ reporter.messages[1] = reporter.messages[2]
  /\ Len(lastOp.before) = 1
  /\ TimesIn(outcome.report.messages, reporter.messages[1]) = 2

\* a Report whose sort moved a rollup behind a finding appended after it
C37_WitnessReordered ==
  /\ Returned
  /\ Len(reporter.messages) = 2
  /\ reporter.messages[1].rollup /\ ~reporter.messages[2].rollup
  /\ outcome.report.messages = <<reporter.messages[2], reporter.messages[1]>>

\* ------------------------------------------------------------------- C38
\* the callback of update k has started
Started(k) == page.updates[k].state # "chained"
\* the save of update k has settled
Settled(k) == page.updates[k].state \in {"saved", "failed"}

C39_PostsOnlyWhenInstalled ==
  /\ \A i \in 1..Len(page.posted) :
       /\ page.posted[i].installed
       /\ page.posted[i].method = "liveReloadStart" => page.posted[i].checked
       /\ page.posted[i].method = "liveReloadStop" => ~page.posted[i].checked
  /\ ~page.installed => page.posted = <<>>

\* the checkbox was checked before the installation and nothing was posted
\* until the 'installed' event posted liveReloadStart; a later toggle then
\* posted liveReloadStop
C39_Witness ==
  /\ page.installed
  /\ Len(page.posted) = 2
  /\ page.posted[1].by = "installed" /\ page.posted[1].method = "liveReloadStart"
  /\ page.posted[2].by = "change" /\ page.posted[2].method = "liveReloadStop"

\* the checkbox is checked and the style is not installed: nothing is posted
C39_WitnessBefore ==
  /\ page.open /\ ~page.installed /\ page.checked /\ page.posted = <<>>

\* ------------------------------------------------------------------- C40
\* the value of a style under a key, a missing number counting as 0, and a
\* title by its place in the alphabet
KeyValue(key, st) ==
  LET Num(x) == IF x = Undefined THEN 0 ELSE x
  IN CASE key = "title" -> IF st.name = "a" THEN 1 ELSE 2
       [] key = "usercss" -> IF st.usercssData THEN 0 ELSE 1
       [] key = "disabled" -> IF st.enabled THEN 1 ELSE 0
       [] key = "dateInstalled" -> Num(st.installDate)
       [] key = "dateUpdated" -> Num(st.updateDate)

\* the (key, direction) pairs of the preference
Pairs == {p \in 1..Len(manage.sortBy) : p % 2 = 1}

\* the first pair on which two styles differ (0: they are equal on every pair)
FirstDifference(a, b) ==
  LET D == {p \in Pairs : KeyValue(manage.sortBy[p], a) # KeyValue(manage.sortBy[p], b)}
  IN IF D = {} THEN 0 ELSE CHOOSE p \in D : \A q \in D : p <= q

\* the place of a style of the list in the list handed to sort
GivenAt(i) ==
  CHOOSE g \in 1..Len(manage.given) :
    /\ manage.given[g] = manage.styles[i]
    /\ Cardinality({h \in 1..g : manage.given[h] = manage.styles[i]})
         = Cardinality({h \in 1..i : manage.styles[h] = manage.styles[i]})

\* C40: sorter.sort orders the styles by the (key, direction) pairs of the
\* preference in order: of two styles the one that stands first is the
\* smaller on the first pair on which they differ when its direction is 'asc'
\* and the greater for any other direction, later pairs deciding only when
\* all earlier ones are equal and a missing number counting as 0; styles
\* equal on every pair compare equal and keep the order they had; the list
\* holds the same styles as before.
C40_SortedByPairs ==
  manage.sorted =>
    /\ Len(manage.styles) = Len(manage.given)
    /\ \A i \in 1..Len(manage.styles) :
         TimesIn(manage.styles, manage.styles[i])
           = TimesIn(manage.given, manage.styles[i])
    /\ \A i, j \in 1..Len(manage.styles) :
         i < j =>
           LET a == manage.styles[i]
               b == manage.styles[j]
               p == FirstDifference(a, b)
           IN IF p = 0 THEN GivenAt(i) < GivenAt(j)
              ELSE IF manage.sortBy[p + 1] = "asc"
              THEN KeyValue(manage.sortBy[p], a) < KeyValue(manage.sortBy[p], b)
              ELSE KeyValue(manage.sortBy[p], a) > KeyValue(manage.sortBy[p], b)

\* three styles sorted by date of installation, newest first, then by title:
\* the sort moved the style without a date, which counts as 0 and ties with
\* the style of date 0, behind a dated one, and the title decided the tie
C40_Witness ==
  /\ manage.sorted
  /\ manage.sortBy = <<"dateInstalled", "desc", "title", "asc">>
  /\ Len(manage.styles) = 3
  /\ manage.given # manage.styles
  /\ manage.styles[1].installDate > 0
  /\ manage.styles[2].installDate = Undefined /\ manage.styles[2].name = "a"
  /\ manage.styles[3].installDate = 0 /\ manage.styles[3].name = "b"
  /\ manage.given[1] = manage.styles[3]

====
